---- MODULE Spec2Model ----
(***************************************************************************)
(* Model of services/conversation_buffer.py and services/chat_history.py:  *)
(* the SQLite-backed ChatHistoryManager (trimmed per-user turn log) and    *)
(* ConversationBuffer (per-user asyncio.Lock table, buffered turns,        *)
(* extraction_log) as used by coroutines interleaving on one event loop;   *)
(* of the PK challenge handlers of handlers/group.py (context.bot_data,    *)
(* pk_records); and of TarotHistoryManager.save_reading of                 *)
(* services/tarot_history.py.                                              *)
(*                                                                         *)
(* One action is one resumption of a coroutine: the effect of the store    *)
(* statement it was suspended on, followed by the synchronous code up to   *)
(* the next store statement (or the return).  clear_buffer_sync is         *)
(* synchronous and is one action.                                          *)
(***************************************************************************)
EXTENDS Integers, Sequences, FiniteSets, TLC

(* ------------------------------ bounds --------------------------------- *)
NumTasks == 2        \* coroutines that may be in flight at once
MaxTurns == 2        \* add_message calls in the concurrent specifications
MaxSeqTurns == 6     \* add_message calls in the sequential specification
MaxPairTurns == 5    \* add_message calls in the two-user specification
MaxTicks == 1        \* advances of the wall clock
MaxSyncs == 1        \* clear_buffer_sync calls
MaxRestarts == 1     \* process restarts
MaxRequests == 3     \* lock requests in the specification that numbers them
MaxHistCalls == 42   \* ChatHistoryManager.add_message calls
MaxMixCalls == 4     \* ChatHistoryManager.add_message calls in the two-user specification
MaxLimit == 3        \* largest limit passed to get_history besides the default
MaxClears == 1       \* clear_history and clear_history_sync calls
MaxChallenges == 2   \* PK challenges created by pk_command
MaxReadingCalls == 23 \* TarotHistoryManager.save_reading calls
MaxOtherRows == 1    \* rows of the second user in the two-user turn log specification
SubSec == 2          \* clock ticks per second (datetime.now() is finer than %S)

(* ------------------------- program constants --------------------------- *)
EXTRACTION_TRIGGER_COUNT == 5
EXTRACTION_TRIGGER_HOURS == 24
SecondsPerHour == 3600
MAX_MESSAGES_PER_USER == 40
DefaultLimit == 40
MAX_READINGS_PER_USER == 20

Users == {"U1", "U2"}
\* the (role, content) pairs the callers pass to add_message
Messages == {[role |-> "user", content |-> "a"], [role |-> "assistant", content |-> "b"]}
Tasks == 1..NumTasks
\* the asyncio.Lock objects of one user, in the order of their construction
LockIds == 1..(MaxSyncs + 1)
NoLock == 0
NoRec == [last_extraction |-> -1, extraction_count |-> 0]
NoId == 0
NoCall == [op |-> "none", user_id |-> "-", role |-> "-", content |-> "-"]
\* the accounts that can be the target of a /pk reply: the users and a bot
People == Users \cup {"bot"}
PkIds == 1..MaxChallenges
NoPk == [challenger_id |-> "-", opponent_id |-> "-", status |-> "none"]

\* EXTRACTION_TRIGGER_HOURS expressed in clock ticks
ThresholdTicks == EXTRACTION_TRIGGER_HOURS * SecondsPerHour * SubSec
Jumps == {ThresholdTicks - 1, ThresholdTicks}

VARIABLES
    mode,       \* how the callers use the services: "free", "seq", "race", ...
    asked,      \* lock requests so far, and the number of each running call's request
    restart,    \* process restarts so far, and what the last one found in the store
    last,       \* per session: outcome of the call the session made last
    hist,       \* table chat_history: a set of rows
    hNextId,    \* the table's next row id
    cutoff,     \* ChatHistoryManager.add_message: the boundary row found
    limit,      \* ChatHistoryManager.get_history: the limit argument
    clears,     \* clear_history and clear_history_sync calls so far
    buf,        \* table conversation_buffer: a set of rows
    nextId,     \* the table's next row id
    extlog,     \* table extraction_log: user_id -> record (NoRec: no row)
    locks,      \* self._locks: user_id -> the user's lock object (NoLock: no entry)
    lockState,  \* the asyncio.Lock objects: locked flag and FIFO of waiters
    nextLock,   \* user_id -> the next asyncio.Lock object constructed for the user
    now,        \* datetime.now(), in ticks
    ticks,      \* clock advances so far
    syncs,      \* clear_buffer_sync calls so far
    pc,         \* where each coroutine is suspended
    call,       \* the call each coroutine is running (or ran last)
    held,       \* the lock object the coroutine's "async with" refers to
    rows,       \* get_and_clear: the rows read
    stamp,      \* get_and_clear: the formatted "now" of the record update
    gone,       \* ids removed by the coroutine's DELETE statement
    ret,        \* the value the coroutine's last call returned
    handed,     \* row id -> number of get_and_clear results that contain it
    drains,     \* user_id -> get_and_clear calls returned with a non-empty list
    sent,       \* user_id -> <<role, content>> of the add_message calls completed
                \* since the last completed get_and_clear / clear for the user
    owner,      \* row id -> the user_id it was inserted for
    drainedAt,  \* user_id -> datetime.now() of the user's last record update (-1: none)
    emptied,    \* user_id -> some get_and_clear DELETE has removed a row of the user
    erased,     \* row ids removed by a clear_buffer / clear_buffer_sync
    bot_data,   \* context.bot_data: pk_id -> the pending challenge (NoPk: no entry)
    nextPk,     \* the pk_id the next challenge gets
    pk_records, \* pk_id -> rows of table pk_records written for the challenge
    removals,   \* pk_id -> "del context.bot_data[pk_id]" statements that removed the entry
    readings,   \* table tarot_readings: a set of rows
    rNextId,    \* the table's next row id
    rCalls      \* save_reading calls so far

dbVars == <<buf, nextId, extlog>>
lockVars == <<locks, lockState, nextLock>>
clockVars == <<now, ticks>>
localVars == <<rows, stamp, gone>>
ghostVars == <<handed, drains, sent, owner, drainedAt, emptied, erased>>
histVars == <<hist, hNextId, cutoff, clears>>
pkVars == <<bot_data, nextPk, pk_records, removals>>
tarotVars == <<readings, rNextId, rCalls>>
vars == <<mode, asked, restart, last, limit, clears, hist, hNextId, cutoff, buf, nextId, extlog, locks, lockState, nextLock, now, ticks,
          syncs, pc, call, held, rows, stamp, gone, ret, handed, drains, sent,
          owner, drainedAt, emptied, erased, bot_data, nextPk, pk_records, removals,
          readings, rNextId, rCalls>>

\* the state of ConversationBuffer and ChatHistoryManager apart from the
\* coroutines' positions, calls and results
serviceVars == <<asked, restart, last, limit, histVars, dbVars, lockVars, clockVars, syncs, held,
                 localVars, ghostVars>>

(* ------------------------------ helpers -------------------------------- *)
Ids(S) == {r.id : r \in S}
SeqIds(s) == {s[i].id : i \in 1..Len(s)}

RECURSIVE SortAsc(_)
SortAsc(S) ==
    IF S = {} THEN <<>>
    ELSE LET m == CHOOSE r \in S : \A q \in S : r.id <= q.id
         IN <<m>> \o SortAsc(S \ {m})

\* strftime('%Y-%m-%d %H:%M:%S'): the clock cut to whole seconds
Strftime(t) == t \div SubSec
\* strptime of such a string: the instant at the start of that second
Strptime(s) == s * SubSec

UserRows(u) == {r \in buf : r.user_id = u}

RECURSIVE SortDesc(_)
SortDesc(S) ==
    IF S = {} THEN <<>>
    ELSE LET m == CHOOSE r \in S : \A q \in S : r.id >= q.id
         IN <<m>> \o SortDesc(S \ {m})

\* mutant of CountBuffer: the query counts no row
CountBufferNone(u) == 0

\* mutant of SelectBuffer: ORDER BY id DESC
SelectBufferDesc(u) == SortDesc(UserRows(u))

\* SELECT role, content, created_at ... WHERE user_id = ? ORDER BY id ASC
SelectBuffer(u) == SortAsc(UserRows(u))

\* SELECT COUNT(*) FROM conversation_buffer WHERE user_id = ?
CountBuffer(u) == Cardinality(UserRows(u))

\* mutant of DeleteBuffer: DELETE without "WHERE user_id = ?"
DeleteBufferAllUsers(u) == {}

\* mutant of DeleteBuffer: the newest row of the user survives the DELETE
DeleteBufferKeepsNewest(u) ==
    {r \in buf : r.user_id # u \/ \A q \in UserRows(u) : q.id <= r.id}

\* DELETE FROM conversation_buffer WHERE user_id = ?
DeleteBuffer(u) == {r \in buf : r.user_id # u}

\* the columns the table fills in by itself: an id larger than every id given
\* before, and the time of the insert to the second
NewRowId == nextId
RowTimestamp == Strftime(now)

\* mutant of InsertBuffer: a turn equal to a buffered one is not inserted again
InsertBufferDedup(u, role, content) ==
    IF \E r \in UserRows(u) : r.role = role /\ r.content = content THEN buf
    ELSE buf \cup {[id |-> NewRowId, user_id |-> u, role |-> role, content |-> content,
                    created_at |-> RowTimestamp]}

\* INSERT INTO conversation_buffer (user_id, role, content) VALUES (?, ?, ?)
InsertBuffer(u, role, content) ==
    buf \cup {[id |-> NewRowId, user_id |-> u, role |-> role, content |-> content,
               created_at |-> RowTimestamp]}

\* mutant of Upsert: the conflict branch does not add one to extraction_count
UpsertNoIncrement(u, s) ==
    [extlog EXCEPT ![u] =
        IF @ = NoRec
        THEN [last_extraction |-> s, extraction_count |-> 1]
        ELSE [last_extraction |-> s, extraction_count |-> @.extraction_count]]

\* mutant of Upsert: the conflict branch does not overwrite last_extraction
UpsertKeepsTimestamp(u, s) ==
    [extlog EXCEPT ![u] =
        IF @ = NoRec
        THEN [last_extraction |-> s, extraction_count |-> 1]
        ELSE [last_extraction |-> @.last_extraction,
              extraction_count |-> @.extraction_count + 1]]

\* INSERT INTO extraction_log ... ON CONFLICT(user_id) DO UPDATE SET ...
Upsert(u, s) ==
    [extlog EXCEPT ![u] =
        IF @ = NoRec
        THEN [last_extraction |-> s, extraction_count |-> 1]
        ELSE [last_extraction |-> s, extraction_count |-> @.extraction_count + 1]]

\* the list comprehension of get_and_clear
Conversations(rs) ==
    [i \in 1..Len(rs) |->
        [role |-> rs[i].role, content |-> rs[i].content, timestamp |-> rs[i].created_at]]

\* mutant of Stale: hours > EXTRACTION_TRIGGER_HOURS
StaleStrict(rec, t) ==
    /\ rec # NoRec
    /\ (t - Strptime(rec.last_extraction)) > ThresholdTicks

\* hours >= EXTRACTION_TRIGGER_HOURS for a stored last_extraction
Stale(rec, t) ==
    /\ rec # NoRec
    /\ (t - Strptime(rec.last_extraction)) >= ThresholdTicks


(* --------------------------- the lock table ---------------------------- *)
\* mutant of GetLock: a new lock is constructed on every call
GetLockAlwaysNew(u) == nextLock[u]

\* _get_lock: the user's lock, constructed on first use
GetLock(u) == IF locks[u] = NoLock THEN nextLock[u] ELSE locks[u]

\* mutant of LockFree: acquire never waits
LockFreeAlways(u, l) == TRUE

\* asyncio.Lock.acquire succeeds at once iff the lock is free and nobody waits
LockFree(u, l) == ~lockState[u][l].locked /\ lockState[u][l].waiters = <<>>

\* mutant of LockKey: every user is looked up under the same key
LockKeyShared(u) == "U1"

\* the key under which self._locks holds the lock of user u
LockKey(u) == u

\* "async with self._get_lock(user_id):" entered by coroutine p; first is the
\* store statement the body starts with
AsyncWith(p, u, first) ==
    LET k == LockKey(u)
        l == GetLock(k)
    IN
    /\ l \in LockIds
    /\ locks' = [locks EXCEPT ![k] = l]
    /\ nextLock' = IF l = nextLock[k] THEN [nextLock EXCEPT ![k] = @ + 1] ELSE nextLock
    /\ lockState' = [lockState EXCEPT ![k][l] =
                        IF LockFree(k, l) THEN [@ EXCEPT !.locked = TRUE]
                        ELSE [@ EXCEPT !.waiters = Append(@, p)]]
    /\ held' = [held EXCEPT ![p] = l]
    /\ pc' = [pc EXCEPT ![p] = IF LockFree(k, l) THEN first ELSE "wait"]
    /\ asked' = IF mode = "order" THEN [n |-> asked.n + 1, at |-> [asked.at EXCEPT ![p] = asked.n + 1]]
                ELSE asked

\* mutant of Release: the lock is left locked
ReleaseKeepsLocked(p) ==
    /\ held' = [held EXCEPT ![p] = NoLock]
    /\ UNCHANGED lockState

\* leaving the "async with" block: asyncio.Lock.release
Release(p) ==
    /\ lockState' = [lockState EXCEPT ![LockKey(call[p].user_id)][held[p]].locked = FALSE]
    /\ held' = [held EXCEPT ![p] = NoLock]

FirstStep(op) ==
    CASE op = "add_message" -> "am_insert"
      [] op = "should_extract" -> "se_count"
      [] op = "get_and_clear" -> "gc_read"
      [] op = "clear_buffer" -> "cb_delete"

\* a released lock wakes its first waiter, which then owns the lock
LockGranted(p) ==
    /\ pc[p] = "wait"
    /\ ~lockState[LockKey(call[p].user_id)][held[p]].locked
    /\ lockState[LockKey(call[p].user_id)][held[p]].waiters # <<>>
    /\ Head(lockState[LockKey(call[p].user_id)][held[p]].waiters) = p
    /\ lockState' = [lockState EXCEPT ![LockKey(call[p].user_id)][held[p]] =
                        [locked |-> TRUE, waiters |-> Tail(@.waiters)]]
    /\ pc' = [pc EXCEPT ![p] = FirstStep(call[p].op)]
    /\ UNCHANGED <<mode, pkVars, tarotVars, asked, restart, last, limit, histVars, dbVars, locks, nextLock, clockVars, syncs, call, held,
                   localVars, ret, ghostVars>>

(* ------------------------------ callers -------------------------------- *)
TurnsIn(m) ==
    CASE m \in {"seq", "session", "sending", "solo"} -> MaxSeqTurns
      [] m = "pair" -> MaxPairTurns
      [] OTHER -> MaxTurns
TurnBound == TurnsIn(mode)
AddsInFlight == Cardinality({q \in Tasks : call[q].op = "add_message" /\ pc[q] # "idle"})
DrainCallers(u) == {q \in Tasks : call[q].op = "get_and_clear" /\ call[q].user_id = u}
AddCallers(u) == {q \in Tasks : call[q].op = "add_message" /\ call[q].user_id = u}

\* the sequential specification follows the session of one user
SessionUser == "U1"

\* when the surrounding handlers may start a call on coroutine p for user u
CanCall(p, u, op) ==
    /\ pc[p] = "idle"
    /\ mode = "seq" => p = 1 /\ u = SessionUser
    /\ mode \in {"fail", "restart", "failops", "erase"} => u = SessionUser
    /\ mode = "order" => u = SessionUser /\ asked.n < MaxRequests
    /\ mode \in {"hist", "tarot"} => p = 1 /\ u = SessionUser
    /\ mode = "histmix" => p = 1
    /\ mode = "histrace" => u = SessionUser
    /\ mode \in {"pair", "histpair"} => (p = 1 /\ u = "U1") \/ (p = 2 /\ u = "U2")
    /\ (mode = "histpair" /\ u # SessionUser /\ op = "chat_add_message")
          => Cardinality({r \in hist : r.user_id = u}) < MaxOtherRows
    /\ mode \in {"session", "sending"} => u = SessionUser
    /\ mode = "solo" => (p = 1 /\ u = "U1") \/ (p = 2 /\ u = "U2")
    /\ mode \in {"session", "sending", "solo"} =>
          /\ op = "add_message" => last[p] = "start"
          /\ op = "should_extract" => last[p] = "added"
          /\ op = "get_and_clear" => last[p] = "fired"
    /\ mode = "race" =>
          /\ op = "add_message" => DrainCallers(u) = {}
          /\ op = "get_and_clear" =>
                /\ AddCallers(u) = {}
                /\ Cardinality(DrainCallers(u)) < 2
                /\ \A q \in DrainCallers(u) : pc[q] # "done"

Begin(p, u, op, role, content) ==
    /\ call' = [call EXCEPT ![p] = [op |-> op, user_id |-> u, role |-> role, content |-> content]]
    /\ UNCHANGED <<rows, stamp, gone, ret>>

\* the specifications with fairness conditions
FairModes == {"live", "sending"}

\* the printed form of the value a call of op returns
Repr(op, value) ==
    CASE op = "should_extract" -> IF value THEN "True" ELSE "False"
      [] op = "get_and_clear" -> IF value = <<>> THEN "[]" ELSE "[...]"
      [] op = "get_buffer_size" -> "int"
      [] OTHER -> "None"

\* a returned value as the model keeps it: the value itself, and its printed
\* form in the specifications with fairness conditions
Kept(op, value) == IF mode \in FairModes THEN Repr(op, value) ELSE value

\* the call returns value: the coroutine is "done" until its caller takes the value
Return(p, value) ==
    /\ pc' = [pc EXCEPT ![p] = "done"]
    /\ ret' = [ret EXCEPT ![p] = Kept(call[p].op, value)]

\* what a session remembers of the call that has just returned
Outcome(p) ==
    CASE call[p].op = "add_message" -> "added"
      [] call[p].op = "should_extract" /\ ret[p] = Kept("should_extract", TRUE) -> "fired"
      [] OTHER -> "start"

\* the caller takes the returned value (or the exception); the coroutine object is gone
Receive(p) ==
    /\ pc[p] \in {"done", "failed"}
    /\ mode = "race" => call[p].op # "get_and_clear"
    /\ pc' = [pc EXCEPT ![p] = "idle"]
    /\ call' = [call EXCEPT ![p] = NoCall]
    /\ rows' = [rows EXCEPT ![p] = <<>>]
    /\ stamp' = [stamp EXCEPT ![p] = 0]
    /\ gone' = [gone EXCEPT ![p] = {}]
    /\ ret' = [ret EXCEPT ![p] = "pending"]
    /\ cutoff' = [cutoff EXCEPT ![p] = NoId]
    /\ limit' = [limit EXCEPT ![p] = 0]
    /\ last' = IF mode \in {"session", "sending", "solo"} THEN [last EXCEPT ![p] = Outcome(p)] ELSE last
    /\ asked' = IF mode = "order" THEN [asked EXCEPT !.at[p] = 0] ELSE asked
    /\ UNCHANGED <<mode, pkVars, tarotVars, restart, hist, hNextId, clears, dbVars, lockVars, clockVars, syncs, held,
                   ghostVars>>

(* ----------------------------- add_message ----------------------------- *)
AddMessageCall(p, u, m) ==
    /\ CanCall(p, u, "add_message")
    /\ (nextId - 1) + AddsInFlight < TurnBound
    /\ Begin(p, u, "add_message", m.role, m.content)
    /\ AsyncWith(p, u, "am_insert")
    /\ UNCHANGED <<mode, pkVars, tarotVars, restart, last, limit, histVars, dbVars, clockVars, syncs, ghostVars>>

AddMessageInsert(p) ==
    /\ pc[p] = "am_insert"
    /\ buf' = InsertBuffer(call[p].user_id, call[p].role, call[p].content)
    /\ nextId' = nextId + 1
    /\ Release(p)
    /\ Return(p, "None")
    /\ sent' = [sent EXCEPT ![call[p].user_id] = Append(@, <<call[p].role, call[p].content>>)]
    /\ owner' = Append(owner, call[p].user_id)
    /\ UNCHANGED <<mode, pkVars, tarotVars, asked, restart, last, limit, histVars, extlog, locks, nextLock, clockVars, syncs, call, localVars,
                   handed, drains, drainedAt, emptied, erased>>

(* ---------------------------- should_extract --------------------------- *)
ShouldExtractCall(p, u) ==
    /\ CanCall(p, u, "should_extract")
    /\ Begin(p, u, "should_extract", "-", "-")
    /\ AsyncWith(p, u, "se_count")
    /\ UNCHANGED <<mode, pkVars, tarotVars, restart, last, limit, histVars, dbVars, clockVars, syncs, ghostVars>>

\* the COUNT(*) query and the two early returns
ShouldExtractCount(p) ==
    /\ pc[p] = "se_count"
    /\ LET count == CountBuffer(call[p].user_id) IN
       IF count = 0 THEN Release(p) /\ Return(p, FALSE)
       ELSE IF count >= EXTRACTION_TRIGGER_COUNT THEN Release(p) /\ Return(p, TRUE)
       ELSE /\ pc' = [pc EXCEPT ![p] = "se_log"]
            /\ UNCHANGED <<lockState, held, ret>>
    /\ UNCHANGED <<mode, pkVars, tarotVars, asked, restart, last, limit, histVars, dbVars, locks, nextLock, clockVars, syncs, call, localVars,
                   ghostVars>>

\* mutant of ShouldExtractLog: the evaluation is recorded in extraction_log
ShouldExtractLogRecordsCheck(p) ==
    /\ pc[p] = "se_log"
    /\ Release(p)
    /\ Return(p, Stale(extlog[call[p].user_id], now))
    /\ extlog' = Upsert(call[p].user_id, Strftime(now))
    /\ UNCHANGED <<mode, pkVars, tarotVars, asked, restart, last, limit, histVars, buf, nextId, locks, nextLock, clockVars,
                   syncs, call, localVars, ghostVars>>

\* the extraction_log query and the age test
ShouldExtractLog(p) ==
    /\ pc[p] = "se_log"
    /\ Release(p)
    /\ Return(p, Stale(extlog[call[p].user_id], now))
    /\ UNCHANGED <<mode, pkVars, tarotVars, asked, restart, last, limit, histVars, dbVars, locks, nextLock, clockVars, syncs, call, localVars,
                   ghostVars>>

(* ---------------------------- get_and_clear ---------------------------- *)
GetAndClearCall(p, u) ==
    /\ CanCall(p, u, "get_and_clear")
    /\ Begin(p, u, "get_and_clear", "-", "-")
    /\ AsyncWith(p, u, "gc_read")
    /\ UNCHANGED <<mode, pkVars, tarotVars, restart, last, limit, histVars, dbVars, clockVars, syncs, ghostVars>>

\* mutant of GetAndClearRead: no "if not rows: return []"
GetAndClearReadNoEmptyCheck(p) ==
    /\ pc[p] = "gc_read"
    /\ rows' = [rows EXCEPT ![p] = SelectBuffer(call[p].user_id)]
    /\ pc' = [pc EXCEPT ![p] = "gc_delete"]
    /\ UNCHANGED <<mode, pkVars, tarotVars, asked, restart, last, limit, histVars, dbVars, lockVars, clockVars, syncs, call, held, stamp, gone,
                   ret, ghostVars>>

\* the SELECT, and "if not rows: return []"
GetAndClearRead(p) ==
    /\ pc[p] = "gc_read"
    /\ LET rs == SelectBuffer(call[p].user_id) IN
       IF rs = <<>> THEN /\ Release(p)
                         /\ Return(p, <<>>)
                         /\ UNCHANGED rows
       ELSE /\ rows' = [rows EXCEPT ![p] = rs]
            /\ pc' = [pc EXCEPT ![p] = "gc_delete"]
            /\ UNCHANGED <<lockState, held, ret>>
    /\ UNCHANGED <<mode, pkVars, tarotVars, asked, restart, last, limit, histVars, dbVars, locks, nextLock, clockVars, syncs, call, stamp, gone,
                   ghostVars>>

\* the DELETE, and the formatting of "now" for the record update
GetAndClearDelete(p) ==
    /\ pc[p] = "gc_delete"
    /\ buf' = DeleteBuffer(call[p].user_id)
    /\ gone' = [gone EXCEPT ![p] = Ids(UserRows(call[p].user_id))]
    /\ stamp' = [stamp EXCEPT ![p] = Strftime(now)]
    /\ drainedAt' = [drainedAt EXCEPT ![call[p].user_id] = now]
    /\ emptied' = [emptied EXCEPT ![call[p].user_id] = @ \/ UserRows(call[p].user_id) # {}]
    /\ pc' = [pc EXCEPT ![p] = "gc_upsert"]
    /\ UNCHANGED <<mode, pkVars, tarotVars, asked, restart, last, limit, histVars, nextId, extlog, lockVars, clockVars, syncs, call, held, rows,
                   ret, handed, drains, sent, owner, erased>>

\* the upsert of extraction_log, and the return of the conversations
GetAndClearUpsert(p) ==
    /\ pc[p] = "gc_upsert"
    /\ extlog' = Upsert(call[p].user_id, stamp[p])
    /\ Release(p)
    /\ Return(p, Conversations(rows[p]))
    /\ handed' = [i \in DOMAIN handed |->
                    IF i \in SeqIds(rows[p]) THEN handed[i] + 1 ELSE handed[i]]
    /\ drains' = [drains EXCEPT ![call[p].user_id] = @ + 1]
    /\ sent' = [sent EXCEPT ![call[p].user_id] = <<>>]
    /\ UNCHANGED <<mode, pkVars, tarotVars, asked, restart, last, limit, histVars, buf, nextId, locks, nextLock, clockVars, syncs, call,
                   localVars, owner, drainedAt, emptied, erased>>

(* ----------------------------- clear_buffer ---------------------------- *)
\* the rows the DELETE removes join the erased ones (recorded in the
\* specification that follows erasures)
Erase(u) ==
    IF mode = "erase" THEN erased \cup Ids(UserRows(u)) ELSE erased

ClearBufferCall(p, u) ==
    /\ CanCall(p, u, "clear_buffer")
    /\ Begin(p, u, "clear_buffer", "-", "-")
    /\ AsyncWith(p, u, "cb_delete")
    /\ UNCHANGED <<mode, pkVars, tarotVars, restart, last, limit, histVars, dbVars, clockVars, syncs, ghostVars>>

ClearBufferDelete(p) ==
    /\ pc[p] = "cb_delete"
    /\ buf' = DeleteBuffer(call[p].user_id)
    /\ gone' = [gone EXCEPT ![p] = Ids(UserRows(call[p].user_id))]
    /\ Release(p)
    /\ Return(p, "None")
    /\ sent' = [sent EXCEPT ![call[p].user_id] = <<>>]
    /\ erased' = Erase(call[p].user_id)
    /\ UNCHANGED <<mode, pkVars, tarotVars, asked, restart, last, limit, histVars, nextId, extlog, locks, nextLock, clockVars, syncs, call,
                   rows, stamp, handed, drains, owner, drainedAt, emptied>>

(* --------------------------- clear_buffer_sync ------------------------- *)
ClearBufferSync(u) ==
    /\ syncs < MaxSyncs
    /\ buf' = DeleteBuffer(u)
    /\ locks' = [locks EXCEPT ![LockKey(u)] = NoLock]
    /\ syncs' = syncs + 1
    /\ sent' = [sent EXCEPT ![u] = <<>>]
    /\ erased' = Erase(u)
    /\ UNCHANGED <<mode, pkVars, tarotVars, asked, restart, last, limit, histVars, nextId, extlog, lockState, nextLock, clockVars, pc, call,
                   held, localVars, ret, handed, drains, owner, drainedAt, emptied>>

(* ---------------------------- get_buffer_size -------------------------- *)
GetBufferSizeCall(p, u) ==
    /\ CanCall(p, u, "get_buffer_size")
    /\ Begin(p, u, "get_buffer_size", "-", "-")
    /\ pc' = [pc EXCEPT ![p] = "sz_count"]
    /\ UNCHANGED <<mode, pkVars, tarotVars, asked, restart, last, limit, histVars, dbVars, lockVars, clockVars, syncs, held, ghostVars>>

GetBufferSizeCount(p) ==
    /\ pc[p] = "sz_count"
    /\ Return(p, CountBuffer(call[p].user_id))
    /\ UNCHANGED <<mode, pkVars, tarotVars, asked, restart, last, limit, histVars, dbVars, lockVars, clockVars, syncs, call, held, localVars,
                   ghostVars>>

(* ------------------------------- the clock ----------------------------- *)
Tick(d) ==
    /\ ticks < MaxTicks
    /\ now' = now + d
    /\ ticks' = ticks + 1
    /\ UNCHANGED <<mode, pkVars, tarotVars, asked, restart, last, limit, histVars, dbVars, lockVars, syncs, pc, call, held, localVars, ret,
                   ghostVars>>

(* ------------------ ChatHistoryManager: the turn log ------------------- *)
HistUserRows(u) == {r \in hist : r.user_id = u}

\* mutant of TrimOffset: OFFSET MAX_MESSAGES_PER_USER - 1
TrimOffsetShort == MAX_MESSAGES_PER_USER - 1

\* mutant of TrimOffset: OFFSET MAX_MESSAGES_PER_USER + 1
TrimOffsetLong == MAX_MESSAGES_PER_USER + 1

\* the OFFSET argument of the boundary query
TrimOffset == MAX_MESSAGES_PER_USER

\* SELECT id ... WHERE user_id = ? ORDER BY id DESC LIMIT 1 OFFSET ?
SelectCutoff(u, offset) ==
    LET d == SortDesc(HistUserRows(u)) IN
    IF Len(d) > offset THEN d[offset + 1].id ELSE NoId

\* mutant of DeleteUpTo: DELETE ... WHERE id <= ?
DeleteUpToAllUsers(u, id) == {r \in hist : r.id > id}

\* DELETE FROM chat_history WHERE user_id = ? AND id <= ?
DeleteUpTo(u, id) == {r \in hist : ~(r.user_id = u /\ r.id <= id)}

\* mutant of SelectHistory: no "WHERE user_id = ?"
SelectHistoryAllUsers(u, n) ==
    LET d == SortDesc(hist) IN
    SubSeq(d, 1, IF Len(d) < n THEN Len(d) ELSE n)

\* SELECT role, content ... WHERE user_id = ? ORDER BY id DESC LIMIT ?
SelectHistory(u, n) ==
    LET d == SortDesc(HistUserRows(u)) IN
    SubSeq(d, 1, IF Len(d) < n THEN Len(d) ELSE n)

\* mutant of Reversed: the rows are left newest-first
NotReversed(s) == s

\* reversed(rows)
Reversed(s) == [i \in 1..Len(s) |-> s[Len(s) + 1 - i]]

\* [{"role": r['role'], "content": r['content']} for r in ...]
History(rs) == [i \in 1..Len(rs) |-> [role |-> rs[i].role, content |-> rs[i].content]]

\* add_message calls made so far: rows inserted and calls about to insert
ChatCalls == (hNextId - 1) + Cardinality({q \in Tasks : pc[q] = "ch_insert"})

ChatBound == IF mode = "histmix" THEN MaxMixCalls ELSE MaxHistCalls

\* the limits passed to get_history
Limits == IF mode = "histmix" THEN (0..MaxLimit) \cup {DefaultLimit} ELSE {DefaultLimit}

\* the n-th message recorded: one call at a time, the roles alternate and the
\* content is numbered; concurrent calls all carry the same message (the trim
\* does not read role or content)
RoleOf(n) == IF n % 2 = 1 THEN "user" ELSE "assistant"
ChatMessage(n) ==
    IF mode \in {"histrace", "histpair"} THEN [role |-> "user", content |-> 0]
    ELSE [role |-> RoleOf(n), content |-> n]

ChatAddMessageCall(p, u) ==
    /\ CanCall(p, u, "chat_add_message")
    /\ ChatCalls < ChatBound
    /\ Begin(p, u, "chat_add_message", ChatMessage(ChatCalls + 1).role,
             ChatMessage(ChatCalls + 1).content)
    /\ pc' = [pc EXCEPT ![p] = "ch_insert"]
    /\ UNCHANGED <<mode, pkVars, tarotVars, asked, restart, last, limit, histVars, dbVars, lockVars, clockVars, syncs, held,
                   ghostVars>>

\* the INSERT
ChatAddMessageInsert(p) ==
    /\ pc[p] = "ch_insert"
    /\ hist' = hist \cup {[id |-> hNextId, user_id |-> call[p].user_id,
                           role |-> call[p].role, content |-> call[p].content]}
    /\ hNextId' = hNextId + 1
    /\ pc' = [pc EXCEPT ![p] = "ch_cutoff"]
    /\ UNCHANGED <<mode, pkVars, tarotVars, asked, restart, last, limit, cutoff, clears, dbVars, lockVars, clockVars, syncs, call,
                   held, localVars, ret, ghostVars>>

\* the boundary query, and "if cutoff:"
ChatAddMessageCutoff(p) ==
    /\ pc[p] = "ch_cutoff"
    /\ LET c == SelectCutoff(call[p].user_id, TrimOffset) IN
       IF c # NoId THEN /\ cutoff' = [cutoff EXCEPT ![p] = c]
                        /\ pc' = [pc EXCEPT ![p] = "ch_delete"]
                        /\ UNCHANGED ret
       ELSE /\ Return(p, "None")
            /\ UNCHANGED cutoff
    /\ UNCHANGED <<mode, pkVars, tarotVars, asked, restart, last, limit, hist, hNextId, clears, dbVars, lockVars, clockVars, syncs,
                   call, held, localVars, ghostVars>>

\* the DELETE up to the boundary
ChatAddMessageDelete(p) ==
    /\ pc[p] = "ch_delete"
    /\ hist' = DeleteUpTo(call[p].user_id, cutoff[p])
    /\ Return(p, "None")
    /\ UNCHANGED <<mode, pkVars, tarotVars, asked, restart, last, limit, hNextId, cutoff, clears, dbVars, lockVars, clockVars, syncs,
                   call, held, localVars, ghostVars>>

GetHistoryCall(p, u, n) ==
    /\ CanCall(p, u, "get_history")
    /\ Begin(p, u, "get_history", "-", "-")
    /\ limit' = [limit EXCEPT ![p] = n]
    /\ pc' = [pc EXCEPT ![p] = "gh_read"]
    /\ UNCHANGED <<mode, pkVars, tarotVars, asked, restart, last, histVars, dbVars, lockVars, clockVars, syncs, held,
                   ghostVars>>

GetHistoryRead(p) ==
    /\ pc[p] = "gh_read"
    /\ Return(p, History(Reversed(SelectHistory(call[p].user_id, limit[p]))))
    /\ UNCHANGED <<mode, pkVars, tarotVars, asked, restart, last, limit, histVars, dbVars, lockVars, clockVars, syncs,
                   call, held, localVars, ghostVars>>

\* DELETE FROM chat_history WHERE user_id = ?
DeleteHistory(u) == {r \in hist : r.user_id # u}

ClearHistoryCall(p, u) ==
    /\ CanCall(p, u, "clear_history")
    /\ clears < MaxClears
    /\ clears' = clears + 1
    /\ Begin(p, u, "clear_history", "-", "-")
    /\ pc' = [pc EXCEPT ![p] = "ch_clear"]
    /\ UNCHANGED <<mode, pkVars, tarotVars, asked, restart, last, limit, hist, hNextId, cutoff, dbVars, lockVars, clockVars,
                   syncs, held, ghostVars>>

ClearHistoryDelete(p) ==
    /\ pc[p] = "ch_clear"
    /\ hist' = DeleteHistory(call[p].user_id)
    /\ Return(p, "None")
    /\ UNCHANGED <<mode, pkVars, tarotVars, asked, restart, last, limit, hNextId, cutoff, clears, dbVars, lockVars, clockVars,
                   syncs, call, held, localVars, ghostVars>>

ClearHistorySync(u) ==
    /\ clears < MaxClears
    /\ clears' = clears + 1
    /\ hist' = DeleteHistory(u)
    /\ UNCHANGED <<mode, pkVars, tarotVars, asked, restart, last, limit, hNextId, cutoff, dbVars, lockVars, clockVars,
                   syncs, pc, call, held, localVars, ret, ghostVars>>

(* ----------------------- handlers/group.py: PK ------------------------- *)
\* opponent.is_bot
IsBot(x) == x = "bot"

\* pk_command, replying to a message of opponent: the two refusals, or the
\* new entry of bot_data (made before the handler's first await on this path)
PkCommand(user, opponent) ==
    /\ nextPk <= MaxChallenges
    /\ IF opponent = user \/ IsBot(opponent)
       THEN UNCHANGED <<bot_data, nextPk>>
       ELSE /\ bot_data' = [bot_data EXCEPT ![nextPk] =
                               [challenger_id |-> user, opponent_id |-> opponent,
                                status |-> "pending"]]
            /\ nextPk' = nextPk + 1
    /\ UNCHANGED <<mode, serviceVars, tarotVars, pc, call, ret, pk_records, removals>>

\* mutant of IsOpponent: anybody may resolve the challenge
IsOpponentAnyone(from_user, pk_info) == TRUE

\* query.from_user.id == pk_info['opponent_id']
IsOpponent(from_user, pk_info) == from_user = pk_info.opponent_id

\* a press of the accept button of challenge pk by from_user: the handler
\* starts and awaits query.answer()
AcceptPkCall(p, from_user, pk) ==
    /\ CanCall(p, from_user, "accept_pk_callback")
    /\ pk < nextPk
    /\ Begin(p, from_user, "accept_pk_callback", "-", pk)
    /\ pc' = [pc EXCEPT ![p] = "ac_answer"]
    /\ UNCHANGED <<mode, serviceVars, pkVars, tarotVars>>

\* the two checks, and _execute_pk_battle up to its await of
\* edit_message_text: the battle is recorded by add_pk_record
AcceptPkCheck(p) ==
    /\ pc[p] = "ac_answer"
    /\ LET pk == call[p].content IN
       IF bot_data[pk] = NoPk \/ ~IsOpponent(call[p].user_id, bot_data[pk])
       THEN /\ Return(p, "None")
            /\ UNCHANGED pk_records
       ELSE /\ pk_records' = [pk_records EXCEPT ![pk] = @ + 1]
            /\ pc' = [pc EXCEPT ![p] = "ac_edit"]
            /\ UNCHANGED ret
    /\ UNCHANGED <<mode, serviceVars, tarotVars, call, bot_data, nextPk, removals>>

\* "del context.bot_data[pk_id]" after the battle: a KeyError when the entry
\* is gone
AcceptPkDelete(p) ==
    /\ pc[p] = "ac_edit"
    /\ LET pk == call[p].content IN
       IF bot_data[pk] # NoPk
       THEN /\ bot_data' = [bot_data EXCEPT ![pk] = NoPk]
            /\ removals' = [removals EXCEPT ![pk] = @ + 1]
            /\ Return(p, "None")
       ELSE /\ pc' = [pc EXCEPT ![p] = "failed"]
            /\ UNCHANGED <<bot_data, removals, ret>>
    /\ UNCHANGED <<mode, serviceVars, tarotVars, call, nextPk, pk_records>>

\* a press of the reject button
RejectPkCall(p, from_user, pk) ==
    /\ CanCall(p, from_user, "reject_pk_callback")
    /\ pk < nextPk
    /\ Begin(p, from_user, "reject_pk_callback", "-", pk)
    /\ pc' = [pc EXCEPT ![p] = "rj_answer"]
    /\ UNCHANGED <<mode, serviceVars, pkVars, tarotVars>>

\* the two checks, then the await of edit_message_text
RejectPkCheck(p) ==
    /\ pc[p] = "rj_answer"
    /\ LET pk == call[p].content IN
       IF bot_data[pk] = NoPk \/ ~IsOpponent(call[p].user_id, bot_data[pk])
       THEN Return(p, "None")
       ELSE /\ pc' = [pc EXCEPT ![p] = "rj_edit"]
            /\ UNCHANGED ret
    /\ UNCHANGED <<mode, serviceVars, pkVars, tarotVars, call>>

\* "del context.bot_data[pk_id]" after the refusal was shown
RejectPkDelete(p) ==
    /\ pc[p] = "rj_edit"
    /\ LET pk == call[p].content IN
       IF bot_data[pk] # NoPk
       THEN /\ bot_data' = [bot_data EXCEPT ![pk] = NoPk]
            /\ removals' = [removals EXCEPT ![pk] = @ + 1]
            /\ Return(p, "None")
       ELSE /\ pc' = [pc EXCEPT ![p] = "failed"]
            /\ UNCHANGED <<bot_data, removals, ret>>
    /\ UNCHANGED <<mode, serviceVars, tarotVars, call, nextPk, pk_records>>

(* ---------------- TarotHistoryManager: save_reading -------------------- *)
ReadingsOf(u) == {r \in readings : r.user_id = u}

\* mutant of ReadingOffset: OFFSET MAX_READINGS_PER_USER + 1
ReadingOffsetLong == MAX_READINGS_PER_USER + 1

\* the OFFSET argument of the boundary query
ReadingOffset == MAX_READINGS_PER_USER

\* SELECT id FROM tarot_readings WHERE user_id = ? ORDER BY id DESC LIMIT 1 OFFSET ?
SelectReadingCutoff(u, offset) ==
    LET d == SortDesc(ReadingsOf(u)) IN
    IF Len(d) > offset THEN d[offset + 1].id ELSE NoId

\* DELETE FROM tarot_readings WHERE user_id = ? AND id <= ?
DeleteReadingsUpTo(u, id) == {r \in readings : ~(r.user_id = u /\ r.id <= id)}

SaveReadingCall(p, u) ==
    /\ CanCall(p, u, "save_reading")
    /\ rCalls < MaxReadingCalls
    /\ rCalls' = rCalls + 1
    /\ Begin(p, u, "save_reading", "-", "-")
    /\ pc' = [pc EXCEPT ![p] = "tr_insert"]
    /\ UNCHANGED <<mode, serviceVars, pkVars, readings, rNextId>>

\* the INSERT
SaveReadingInsert(p) ==
    /\ pc[p] = "tr_insert"
    /\ readings' = readings \cup {[id |-> rNextId, user_id |-> call[p].user_id]}
    /\ rNextId' = rNextId + 1
    /\ pc' = [pc EXCEPT ![p] = "tr_cutoff"]
    /\ UNCHANGED <<mode, serviceVars, pkVars, rCalls, call, ret>>

\* the boundary query, "if cutoff:", and "return True" when there is none
SaveReadingCutoff(p) ==
    /\ pc[p] = "tr_cutoff"
    /\ LET c == SelectReadingCutoff(call[p].user_id, ReadingOffset) IN
       IF c # NoId THEN /\ cutoff' = [cutoff EXCEPT ![p] = c]
                        /\ pc' = [pc EXCEPT ![p] = "tr_delete"]
                        /\ UNCHANGED ret
       ELSE /\ Return(p, TRUE)
            /\ UNCHANGED cutoff
    /\ UNCHANGED <<mode, asked, restart, last, limit, hist, hNextId, clears, dbVars, lockVars,
                   clockVars, syncs, held, localVars, ghostVars, pkVars, tarotVars, call>>

\* the DELETE up to the boundary, and "return True"
SaveReadingDelete(p) ==
    /\ pc[p] = "tr_delete"
    /\ readings' = DeleteReadingsUpTo(call[p].user_id, cutoff[p])
    /\ Return(p, TRUE)
    /\ UNCHANGED <<mode, serviceVars, pkVars, rNextId, rCalls, call>>

\* the store statement that save_reading awaits raises: the statement has no
\* effect, "except Exception" logs the error and the call returns False
SaveReadingStoreFails(p) ==
    /\ pc[p] \in {"tr_insert", "tr_cutoff", "tr_delete"}
    /\ Return(p, FALSE)
    /\ UNCHANGED <<mode, serviceVars, pkVars, tarotVars, call>>

(* ------------------------ failures and restarts ------------------------ *)
Suspended == {"am_insert", "se_count", "se_log", "gc_read", "gc_delete", "gc_upsert",
              "cb_delete", "sz_count"}

\* mutant of StoreFails: the lock stays locked when the exception leaves
StoreFailsKeepsLock(p) ==
    /\ pc[p] \in Suspended
    /\ pc' = [pc EXCEPT ![p] = "failed"]
    /\ UNCHANGED <<mode, pkVars, tarotVars, asked, restart, last, limit, histVars, dbVars, lockVars, clockVars, syncs,
                   call, held, localVars, ret, ghostVars>>

\* the store statement coroutine p awaits raises: the statement has no effect,
\* the exception leaves the "async with" block (which releases the lock) and
\* reaches the caller
StoreFails(p) ==
    /\ pc[p] \in Suspended
    /\ pc' = [pc EXCEPT ![p] = "failed"]
    /\ IF held[p] # NoLock THEN Release(p) ELSE UNCHANGED <<lockState, held>>
    /\ UNCHANGED <<mode, pkVars, tarotVars, asked, restart, last, limit, histVars, dbVars, locks, nextLock, clockVars, syncs,
                   call, localVars, ret, ghostVars>>

\* mutant of Crash: the lock table outlives the coroutines
CrashKeepsLocks ==
    /\ restart.n < MaxRestarts
    /\ restart' = [n |-> restart.n + 1,
                   rows |-> [u \in Users |-> SelectBuffer(u)],
                   drains |-> drains]
    /\ pc' = [p \in Tasks |-> "idle"]
    /\ call' = [p \in Tasks |-> NoCall]
    /\ held' = [p \in Tasks |-> NoLock]
    /\ rows' = [p \in Tasks |-> <<>>]
    /\ stamp' = [p \in Tasks |-> 0]
    /\ gone' = [p \in Tasks |-> {}]
    /\ ret' = [p \in Tasks |-> "pending"]
    /\ cutoff' = [p \in Tasks |-> NoId]
    /\ limit' = [p \in Tasks |-> 0]
    /\ UNCHANGED <<mode, pkVars, tarotVars, asked, last, hist, hNextId, clears, dbVars, lockVars, clockVars, syncs, ghostVars>>

\* the process stops and is started again: the tables are on disk, the
\* coroutines and the lock table (self._locks = {}) are not
Crash ==
    /\ restart.n < MaxRestarts
    /\ restart' = [n |-> restart.n + 1,
                   rows |-> [u \in Users |-> SelectBuffer(u)],
                   drains |-> drains]
    /\ locks' = [u \in Users |-> NoLock]
    /\ lockState' = [u \in Users |-> [l \in LockIds |-> [locked |-> FALSE, waiters |-> <<>>]]]
    /\ nextLock' = [u \in Users |-> 1]
    /\ pc' = [p \in Tasks |-> "idle"]
    /\ call' = [p \in Tasks |-> NoCall]
    /\ held' = [p \in Tasks |-> NoLock]
    /\ rows' = [p \in Tasks |-> <<>>]
    /\ stamp' = [p \in Tasks |-> 0]
    /\ gone' = [p \in Tasks |-> {}]
    /\ ret' = [p \in Tasks |-> "pending"]
    /\ cutoff' = [p \in Tasks |-> NoId]
    /\ limit' = [p \in Tasks |-> 0]
    /\ UNCHANGED <<mode, pkVars, tarotVars, asked, last, hist, hNextId, clears, dbVars, clockVars, syncs, ghostVars>>

(* ---------------------------- specifications --------------------------- *)
InitMode(m, phases) ==
    /\ mode = m
    /\ asked = [n |-> 0, at |-> [p \in Tasks |-> 0]]
    /\ restart = [n |-> 0, rows |-> [u \in Users |-> <<>>], drains |-> [u \in Users |-> 0]]
    /\ last = [p \in Tasks |-> "start"]
    /\ hist = {}
    /\ hNextId = 1
    /\ clears = 0
    /\ cutoff = [p \in Tasks |-> NoId]
    /\ limit = [p \in Tasks |-> 0]
    /\ buf = {}
    /\ nextId = 1
    /\ extlog = [u \in Users |-> NoRec]
    /\ locks = [u \in Users |-> NoLock]
    /\ lockState = [u \in Users |-> [l \in LockIds |-> [locked |-> FALSE, waiters |-> <<>>]]]
    /\ nextLock = [u \in Users |-> 1]
    /\ now \in phases
    /\ ticks = 0
    /\ syncs = 0
    /\ pc = [p \in Tasks |-> "idle"]
    /\ call = [p \in Tasks |-> NoCall]
    /\ held = [p \in Tasks |-> NoLock]
    /\ rows = [p \in Tasks |-> <<>>]
    /\ stamp = [p \in Tasks |-> 0]
    /\ gone = [p \in Tasks |-> {}]
    /\ ret = [p \in Tasks |-> "pending"]
    /\ handed = [i \in 1..TurnsIn(m) |-> 0]
    /\ drains = [u \in Users |-> 0]
    /\ sent = [u \in Users |-> <<>>]
    /\ owner = <<>>
    /\ drainedAt = [u \in Users |-> -1]
    /\ emptied = [u \in Users |-> FALSE]
    /\ erased = {}
    /\ bot_data = [k \in PkIds |-> NoPk]
    /\ nextPk = 1
    /\ pk_records = [k \in PkIds |-> 0]
    /\ removals = [k \in PkIds |-> 0]
    /\ readings = {}
    /\ rNextId = 1
    /\ rCalls = 0

\* any interleaving of the six operations
Init == InitMode("free", {0})

Next ==
    \/ \E p \in Tasks, u \in Users, m \in Messages : AddMessageCall(p, u, m)
    \/ \E p \in Tasks : AddMessageInsert(p)
    \/ \E p \in Tasks, u \in Users : ShouldExtractCall(p, u)
    \/ \E p \in Tasks : ShouldExtractCount(p)
    \/ \E p \in Tasks : ShouldExtractLog(p)
    \/ \E p \in Tasks, u \in Users : GetAndClearCall(p, u)
    \/ \E p \in Tasks : GetAndClearRead(p)
    \/ \E p \in Tasks : GetAndClearDelete(p)
    \/ \E p \in Tasks : GetAndClearUpsert(p)
    \/ \E p \in Tasks, u \in Users : ClearBufferCall(p, u)
    \/ \E p \in Tasks : ClearBufferDelete(p)
    \/ \E u \in Users : ClearBufferSync(u)
    \/ \E p \in Tasks, u \in Users : GetBufferSizeCall(p, u)
    \/ \E p \in Tasks : GetBufferSizeCount(p)
    \/ \E p \in Tasks : LockGranted(p)
    \/ \E p \in Tasks : Receive(p)
    \/ \E d \in Jumps : Tick(d)

Spec == Init /\ [][Next]_vars

\* one call at a time: each call returns before the next one starts
InitSeq == InitMode("seq", 0..(SubSec - 1))

NextSeq ==
    \/ \E p \in Tasks, u \in Users, m \in Messages : AddMessageCall(p, u, m)
    \/ \E p \in Tasks : AddMessageInsert(p)
    \/ \E p \in Tasks, u \in Users : ShouldExtractCall(p, u)
    \/ \E p \in Tasks : ShouldExtractCount(p)
    \/ \E p \in Tasks : ShouldExtractLog(p)
    \/ \E p \in Tasks, u \in Users : GetAndClearCall(p, u)
    \/ \E p \in Tasks : GetAndClearRead(p)
    \/ \E p \in Tasks : GetAndClearDelete(p)
    \/ \E p \in Tasks : GetAndClearUpsert(p)
    \/ \E p \in Tasks, u \in Users : GetBufferSizeCall(p, u)
    \/ \E p \in Tasks : GetBufferSizeCount(p)
    \/ \E p \in Tasks : Receive(p)
    \/ \E d \in Jumps : Tick(d)

SpecSeq == InitSeq /\ [][NextSeq]_vars

\* add_message calls first, then two get_and_clear calls per user, concurrently
InitRace == InitMode("race", {0})

NextRace ==
    \/ \E p \in Tasks, u \in Users, m \in Messages : AddMessageCall(p, u, m)
    \/ \E p \in Tasks : AddMessageInsert(p)
    \/ \E p \in Tasks, u \in Users : GetAndClearCall(p, u)
    \/ \E p \in Tasks : GetAndClearRead(p)
    \/ \E p \in Tasks : GetAndClearDelete(p)
    \/ \E p \in Tasks : GetAndClearUpsert(p)
    \/ \E p \in Tasks : LockGranted(p)
    \/ \E p \in Tasks : Receive(p)

SpecRace == InitRace /\ [][NextRace]_vars

\* add_message and get_and_clear with store failures and process restarts
InitFail == InitMode("fail", {0})

NextFail ==
    \/ \E p \in Tasks, u \in Users, m \in Messages : AddMessageCall(p, u, m)
    \/ \E p \in Tasks : AddMessageInsert(p)
    \/ \E p \in Tasks, u \in Users : GetAndClearCall(p, u)
    \/ \E p \in Tasks : GetAndClearRead(p)
    \/ \E p \in Tasks : GetAndClearDelete(p)
    \/ \E p \in Tasks : GetAndClearUpsert(p)
    \/ \E p \in Tasks : LockGranted(p)
    \/ \E p \in Tasks : Receive(p)
    \/ \E p \in Tasks : StoreFails(p)
    \/ Crash

\* the turn log of one user, one call at a time
InitHist == InitMode("hist", {0})

NextHist ==
    \/ \E p \in Tasks, u \in Users : ChatAddMessageCall(p, u)
    \/ \E p \in Tasks : ChatAddMessageInsert(p)
    \/ \E p \in Tasks : ChatAddMessageCutoff(p)
    \/ \E p \in Tasks : ChatAddMessageDelete(p)
    \/ \E p \in Tasks, u \in Users, n \in Limits : GetHistoryCall(p, u, n)
    \/ \E p \in Tasks : GetHistoryRead(p)
    \/ \E p \in Tasks : Receive(p)

SpecHist == InitHist /\ [][NextHist]_vars

\* the turn logs of two users, one call at a time, get_history with any limit
InitHistMix == InitMode("histmix", {0})

NextHistMix ==
    \/ \E p \in Tasks, u \in Users : ChatAddMessageCall(p, u)
    \/ \E p \in Tasks : ChatAddMessageInsert(p)
    \/ \E p \in Tasks : ChatAddMessageCutoff(p)
    \/ \E p \in Tasks, u \in Users, n \in Limits : GetHistoryCall(p, u, n)
    \/ \E p \in Tasks : GetHistoryRead(p)
    \/ \E p \in Tasks : Receive(p)

SpecHistMix == InitHistMix /\ [][NextHistMix]_vars

\* the turn logs of two users, each with one caller: add_message with its
\* trim, clear_history and clear_history_sync, interleaved
InitHistPair == InitMode("histpair", {0})

NextHistPair ==
    \/ \E p \in Tasks, u \in Users : ChatAddMessageCall(p, u)
    \/ \E p \in Tasks : ChatAddMessageInsert(p)
    \/ \E p \in Tasks : ChatAddMessageCutoff(p)
    \/ \E p \in Tasks : ChatAddMessageDelete(p)
    \/ \E p \in Tasks, u \in Users : ClearHistoryCall(p, u)
    \/ \E p \in Tasks : ClearHistoryDelete(p)
    \/ \E u \in Users : ClearHistorySync(u)
    \/ \E p \in Tasks : Receive(p)

SpecHistPair == InitHistPair /\ [][NextHistPair]_vars

\* concurrent ChatHistoryManager.add_message calls for one user
InitHistRace == InitMode("histrace", {0})

NextHistRace ==
    \/ \E p \in Tasks, u \in Users : ChatAddMessageCall(p, u)
    \/ \E p \in Tasks : ChatAddMessageInsert(p)
    \/ \E p \in Tasks : ChatAddMessageCutoff(p)
    \/ \E p \in Tasks : ChatAddMessageDelete(p)
    \/ \E p \in Tasks : Receive(p)

SpecHistRace == InitHistRace /\ [][NextHistRace]_vars

SpecFail == InitFail /\ [][NextFail]_vars

\* the four locked operations of one user with store failures
InitFailOps == InitMode("failops", {0})

NextFailOps ==
    \/ \E p \in Tasks, u \in Users, m \in Messages : AddMessageCall(p, u, m)
    \/ \E p \in Tasks : AddMessageInsert(p)
    \/ \E p \in Tasks, u \in Users : ShouldExtractCall(p, u)
    \/ \E p \in Tasks : ShouldExtractCount(p)
    \/ \E p \in Tasks : ShouldExtractLog(p)
    \/ \E p \in Tasks, u \in Users : GetAndClearCall(p, u)
    \/ \E p \in Tasks : GetAndClearRead(p)
    \/ \E p \in Tasks : GetAndClearDelete(p)
    \/ \E p \in Tasks : GetAndClearUpsert(p)
    \/ \E p \in Tasks, u \in Users : ClearBufferCall(p, u)
    \/ \E p \in Tasks : ClearBufferDelete(p)
    \/ \E p \in Tasks : LockGranted(p)
    \/ \E p \in Tasks : Receive(p)
    \/ \E p \in Tasks : StoreFails(p)

SpecFailOps == InitFailOps /\ [][NextFailOps]_vars

\* add_message, get_and_clear and clear_buffer_sync of one user, the lock
\* requests numbered in the order they are made
InitOrder == InitMode("order", {0})

NextOrder ==
    \/ \E p \in Tasks, u \in Users, m \in Messages : AddMessageCall(p, u, m)
    \/ \E p \in Tasks : AddMessageInsert(p)
    \/ \E p \in Tasks, u \in Users : GetAndClearCall(p, u)
    \/ \E p \in Tasks : GetAndClearRead(p)
    \/ \E p \in Tasks : GetAndClearDelete(p)
    \/ \E p \in Tasks : GetAndClearUpsert(p)
    \/ \E u \in {SessionUser} : ClearBufferSync(u)
    \/ \E p \in Tasks : LockGranted(p)
    \/ \E p \in Tasks : Receive(p)

SpecOrder == InitOrder /\ [][NextOrder]_vars

\* the locked operations that write, clear_buffer_sync and store failures,
\* for two users
InitLock == InitMode("lock", {0})

NextLock ==
    \/ \E p \in Tasks, u \in Users : AddMessageCall(p, u, [role |-> "user", content |-> "a"])
    \/ \E p \in Tasks : AddMessageInsert(p)
    \/ \E p \in Tasks, u \in Users : GetAndClearCall(p, u)
    \/ \E p \in Tasks : GetAndClearRead(p)
    \/ \E p \in Tasks : GetAndClearDelete(p)
    \/ \E p \in Tasks : GetAndClearUpsert(p)
    \/ \E p \in Tasks, u \in Users : ClearBufferCall(p, u)
    \/ \E p \in Tasks : ClearBufferDelete(p)
    \/ \E u \in Users : ClearBufferSync(u)
    \/ \E p \in Tasks : LockGranted(p)
    \/ \E p \in Tasks : Receive(p)
    \/ \E p \in Tasks : StoreFails(p)

SpecLock == InitLock /\ [][NextLock]_vars

\* add_message, get_and_clear and the two erasures of one user
InitErase == InitMode("erase", {0})

NextErase ==
    \/ \E p \in Tasks, u \in Users, m \in Messages : AddMessageCall(p, u, m)
    \/ \E p \in Tasks : AddMessageInsert(p)
    \/ \E p \in Tasks, u \in Users : GetAndClearCall(p, u)
    \/ \E p \in Tasks : GetAndClearRead(p)
    \/ \E p \in Tasks : GetAndClearDelete(p)
    \/ \E p \in Tasks : GetAndClearUpsert(p)
    \/ \E p \in Tasks, u \in Users : ClearBufferCall(p, u)
    \/ \E p \in Tasks : ClearBufferDelete(p)
    \/ \E u \in {SessionUser} : ClearBufferSync(u)
    \/ \E p \in Tasks : LockGranted(p)
    \/ \E p \in Tasks : Receive(p)

SpecErase == InitErase /\ [][NextErase]_vars

\* a step that resumes coroutine p
Resume(p) ==
    \/ AddMessageInsert(p)
    \/ ShouldExtractCount(p)
    \/ ShouldExtractLog(p)
    \/ GetAndClearRead(p)
    \/ GetAndClearDelete(p)
    \/ GetAndClearUpsert(p)
    \/ ClearBufferDelete(p)
    \/ LockGranted(p)

\* the four locked operations and clear_buffer_sync for two users; every
\* store statement completes and the event loop runs every coroutine that is
\* ready
InitLive == InitMode("live", {0})

NextLive ==
    \/ \E p \in Tasks, u \in Users : AddMessageCall(p, u, [role |-> "user", content |-> "a"])
    \/ \E p \in Tasks, u \in Users : ShouldExtractCall(p, u)
    \/ \E p \in Tasks, u \in Users : GetAndClearCall(p, u)
    \/ \E p \in Tasks, u \in Users : ClearBufferCall(p, u)
    \/ \E u \in Users : ClearBufferSync(u)
    \/ \E p \in Tasks : Resume(p)
    \/ \E p \in Tasks : Receive(p)

SpecLive == InitLive /\ [][NextLive]_vars /\ \A p \in Tasks : WF_vars(Resume(p))

\* a step of the session that coroutine p runs: its next call, the
\* resumption of the call, or the taking of the result
SessionStep(p) ==
    \/ \E m \in Messages : AddMessageCall(p, SessionUser, m)
    \/ ShouldExtractCall(p, SessionUser)
    \/ GetAndClearCall(p, SessionUser)
    \/ AddMessageInsert(p)
    \/ ShouldExtractCount(p)
    \/ ShouldExtractLog(p)
    \/ GetAndClearRead(p)
    \/ GetAndClearDelete(p)
    \/ GetAndClearUpsert(p)
    \/ LockGranted(p)
    \/ Receive(p)

\* sessions of one user that keep sending: each does add_message, then
\* should_extract, then get_and_clear when should_extract returned True, and
\* goes on while there are turns to send
InitSending == InitMode("sending", {0})

NextSending == \E p \in Tasks : SessionStep(p)

SpecSending == InitSending /\ [][NextSending]_vars /\ \A p \in Tasks : WF_vars(SessionStep(p))

\* two users with one session each: add_message, then should_extract, then
\* get_and_clear when should_extract returned True; the clock may advance
InitSolo == InitMode("solo", {0})

NextSolo ==
    \/ \E p \in Tasks, u \in Users : AddMessageCall(p, u, [role |-> "user", content |-> "a"])
    \/ \E p \in Tasks : AddMessageInsert(p)
    \/ \E p \in Tasks, u \in Users : ShouldExtractCall(p, u)
    \/ \E p \in Tasks : ShouldExtractCount(p)
    \/ \E p \in Tasks : ShouldExtractLog(p)
    \/ \E p \in Tasks, u \in Users : GetAndClearCall(p, u)
    \/ \E p \in Tasks : GetAndClearRead(p)
    \/ \E p \in Tasks : GetAndClearDelete(p)
    \/ \E p \in Tasks : GetAndClearUpsert(p)
    \/ \E p \in Tasks : Receive(p)
    \/ \E d \in Jumps : Tick(d)

SpecSolo == InitSolo /\ [][NextSolo]_vars

\* PK challenges: pk_command and the accept and reject callbacks, the
\* callbacks interleaving at their awaits
InitPk == InitMode("pk", {0})

NextPk ==
    \/ \E user \in Users, opponent \in People : PkCommand(user, opponent)
    \/ \E p \in Tasks, u \in Users, pk \in PkIds : AcceptPkCall(p, u, pk)
    \/ \E p \in Tasks : AcceptPkCheck(p)
    \/ \E p \in Tasks : AcceptPkDelete(p)
    \/ \E p \in Tasks, u \in Users, pk \in PkIds : RejectPkCall(p, u, pk)
    \/ \E p \in Tasks : RejectPkCheck(p)
    \/ \E p \in Tasks : RejectPkDelete(p)
    \/ \E p \in Tasks : Receive(p)

SpecPk == InitPk /\ [][NextPk]_vars

\* save_reading for one user, one call at a time, with store failures
InitTarot == InitMode("tarot", {0})

NextTarot ==
    \/ \E p \in Tasks, u \in Users : SaveReadingCall(p, u)
    \/ \E p \in Tasks : SaveReadingInsert(p)
    \/ \E p \in Tasks : SaveReadingCutoff(p)
    \/ \E p \in Tasks : SaveReadingDelete(p)
    \/ \E p \in Tasks : SaveReadingStoreFails(p)
    \/ \E p \in Tasks : Receive(p)

SpecTarot == InitTarot /\ [][NextTarot]_vars

\* add_message and get_and_clear with process restarts
InitRestart == InitMode("restart", {0})

NextRestart ==
    \/ \E p \in Tasks, u \in Users, m \in Messages : AddMessageCall(p, u, m)
    \/ \E p \in Tasks : AddMessageInsert(p)
    \/ \E p \in Tasks, u \in Users : GetAndClearCall(p, u)
    \/ \E p \in Tasks : GetAndClearRead(p)
    \/ \E p \in Tasks : GetAndClearDelete(p)
    \/ \E p \in Tasks : GetAndClearUpsert(p)
    \/ \E p \in Tasks : LockGranted(p)
    \/ \E p \in Tasks : Receive(p)
    \/ Crash

SpecRestart == InitRestart /\ [][NextRestart]_vars

\* sessions of one user, each doing add_message, then should_extract, then
\* get_and_clear when should_extract returned True
InitSession == InitMode("session", {0})

NextSession ==
    \/ \E p \in Tasks, u \in Users, m \in Messages : AddMessageCall(p, u, m)
    \/ \E p \in Tasks : AddMessageInsert(p)
    \/ \E p \in Tasks, u \in Users : ShouldExtractCall(p, u)
    \/ \E p \in Tasks : ShouldExtractCount(p)
    \/ \E p \in Tasks : ShouldExtractLog(p)
    \/ \E p \in Tasks, u \in Users : GetAndClearCall(p, u)
    \/ \E p \in Tasks : GetAndClearRead(p)
    \/ \E p \in Tasks : GetAndClearDelete(p)
    \/ \E p \in Tasks : GetAndClearUpsert(p)
    \/ \E p \in Tasks : LockGranted(p)
    \/ \E p \in Tasks : Receive(p)

SpecSession == InitSession /\ [][NextSession]_vars

\* two users, each with one session whose calls run concurrently with the
\* calls of the other user's session
InitPair == InitMode("pair", {0})

NextPair ==
    \/ \E p \in Tasks, u \in Users, m \in Messages : AddMessageCall(p, u, m)
    \/ \E p \in Tasks : AddMessageInsert(p)
    \/ \E p \in Tasks, u \in Users : ShouldExtractCall(p, u)
    \/ \E p \in Tasks : ShouldExtractCount(p)
    \/ \E p \in Tasks : ShouldExtractLog(p)
    \/ \E p \in Tasks, u \in Users : GetAndClearCall(p, u)
    \/ \E p \in Tasks : GetAndClearRead(p)
    \/ \E p \in Tasks : GetAndClearDelete(p)
    \/ \E p \in Tasks : GetAndClearUpsert(p)
    \/ \E p \in Tasks : Receive(p)

SpecPair == InitPair /\ [][NextPair]_vars

(* -------------------------------- claims ------------------------------- *)
\* the get_and_clear calls for u that have read the buffer and not yet returned
InFlightDrains(u) ==
    {p \in Tasks : /\ call[p].op = "get_and_clear"
                   /\ call[p].user_id = u
                   /\ pc[p] \in {"gc_delete", "gc_upsert"}}

\* C1: in every reachable state at most one get_and_clear per user is between
\* its read of the buffered turns and its return.
AtMostOneDrainInFlight ==
    \A u \in Users : Cardinality(InFlightDrains(u)) <= 1


\* the row ids ever inserted for user u
TurnsOf(u) == {i \in 1..Len(owner) : owner[i] = u}

\* coroutine p returns from a call of op in this step
Returns(p, op) == call[p].op = op /\ pc[p] # "done" /\ pc'[p] = "done"

\* the (role, content) pairs of a returned list or of a sequence of rows
Pairs(s) == [i \in 1..Len(s) |-> <<s[i].role, s[i].content>>]

\* C2: two concurrent get_and_clear calls for a user with a non-empty buffer:
\* exactly one returns a non-empty list, the other an empty one, and the
\* non-empty list holds every turn added before the calls began.
RaceOneWinner ==
    \A u \in Users :
        ( /\ Cardinality(DrainCallers(u)) = 2
          /\ \A p \in DrainCallers(u) : pc[p] = "done"
          /\ TurnsOf(u) # {} )
        => \E p, q \in DrainCallers(u) :
              /\ p # q
              /\ ret[p] # <<>>
              /\ ret[q] = <<>>
              /\ TurnsOf(u) \subseteq SeqIds(rows[p])
              /\ Len(ret[p]) = Cardinality(TurnsOf(u))

\* C2 witness: both calls of a race over two buffered turns have returned
RaceOneWinnerReached ==
    \E u \in Users :
        /\ Cardinality(DrainCallers(u)) = 2
        /\ \A p \in DrainCallers(u) : pc[p] = "done"
        /\ Cardinality(TurnsOf(u)) = 2
        /\ \E p \in DrainCallers(u) : Len(ret[p]) = 2

\* C3: no buffered turn is contained in the result of more than one
\* get_and_clear call.
NoTurnHandedOffTwice ==
    \A i \in DOMAIN handed : handed[i] <= 1

\* C4: a get_and_clear deletes exactly what it read: no turn it does not return
\* is deleted by it, and no turn it read is left in the buffer.
DrainDeletesWhatItRead ==
    \A p \in Tasks :
        (call[p].op = "get_and_clear" /\ pc[p] \in {"gc_upsert", "done"})
        => /\ gone[p] \subseteq SeqIds(rows[p])
           /\ SeqIds(rows[p]) \cap Ids(UserRows(call[p].user_id)) = {}

\* C6: a get_and_clear that finds no buffered turn returns the empty list at
\* once, and a get_and_clear returning the empty list leaves every Extraction
\* Record as it was (an absent one stays absent).
EmptyDrainIsNoOp ==
    [][\A p \in Tasks :
          /\ ( /\ pc[p] = "gc_read"
               /\ pc'[p] # "gc_read"
               /\ UserRows(call[p].user_id) = {} )
             => (pc'[p] = "done" /\ ret'[p] = <<>> /\ extlog' = extlog /\ buf' = buf)
          /\ (Returns(p, "get_and_clear") /\ ret'[p] = <<>>) => extlog' = extlog
      ]_vars

\* C6 witness: an empty drain has returned for a user without a record while
\* another user has one
EmptyDrainReached ==
    \E p \in Tasks :
        /\ call[p].op = "get_and_clear"
        /\ pc[p] = "done"
        /\ ret[p] = <<>>
        /\ extlog[call[p].user_id] = NoRec
        /\ \E u \in Users : extlog[u] # NoRec

\* C7: extraction_count is the number of get_and_clear calls returned with a
\* non-empty list (no record before the first), and each such return sets
\* last_extraction to the time that drain formatted and adds one to the count.
ExtractionCountMatches ==
    /\ [](\A u \in Users :
            /\ extlog[u].extraction_count = drains[u]
            /\ (extlog[u] = NoRec) <=> (drains[u] = 0))
    /\ [][\A p \in Tasks :
            Returns(p, "get_and_clear") /\ ret'[p] # <<>>
            => LET u == call[p].user_id IN
               /\ extlog'[u].extraction_count = extlog[u].extraction_count + 1
               /\ extlog[u] = NoRec => extlog'[u].extraction_count = 1
               /\ extlog'[u].last_extraction = stamp[p]
               /\ stamp[p] <= Strftime(now)
               /\ \A v \in Users \ {u} : extlog'[v] = extlog[v]
         ]_vars

\* C7 witness: a second non-empty drain has replaced an earlier last_extraction
SecondDrainReached ==
    \E u \in Users :
        /\ drains[u] = 2
        /\ extlog[u].extraction_count = 2
        /\ extlog[u].last_extraction > 0


\* C5: a get_and_clear that follows N add_message calls returns N elements,
\* the i-th carrying the role and content of the i-th add_message.
DrainReturnsAppendedInOrder ==
    [][\A p \in Tasks :
          Returns(p, "get_and_clear")
          => /\ Len(ret'[p]) = Len(sent[call[p].user_id])
             /\ Pairs(ret'[p]) = sent[call[p].user_id]
      ]_vars

\* C5 witness: five turns of alternating roles have been returned in order
FiveTurnsDrained ==
    /\ pc[1] = "done"
    /\ call[1].op = "get_and_clear"
    /\ Len(ret[1]) = 5
    /\ Pairs(ret[1]) = << <<"user", "a">>, <<"assistant", "b">>, <<"user", "a">>,
                          <<"assistant", "b">>, <<"user", "a">> >>

\* the decision rule as the specification states it, over the buffer size n,
\* the record rec and the time dt elapsed since rec.last_extraction
Fires(n, rec, dt) ==
    \/ n >= EXTRACTION_TRIGGER_COUNT
    \/ (0 < n /\ n < EXTRACTION_TRIGGER_COUNT /\ rec # NoRec /\ dt >= ThresholdTicks)

\* C8: should_extract returns True exactly when n >= COUNT, or 0 < n < COUNT
\* with a record whose age dt >= TIME; False when n = 0 whatever dt is.
ShouldExtractDecision ==
    [][\A p \in Tasks :
          Returns(p, "should_extract")
          => LET u == call[p].user_id
                 n == CountBuffer(u)
                 dt == now - Strptime(extlog[u].last_extraction)
             IN /\ ret'[p] = Fires(n, extlog[u], dt)
                /\ n = 0 => ret'[p] = FALSE
      ]_vars

\* C8 witness: True was returned for fewer than COUNT turns at an age of
\* exactly TIME
FiredAtThreshold ==
    \E p \in Tasks :
        /\ pc[p] = "done"
        /\ call[p].op = "should_extract"
        /\ ret[p] = TRUE
        /\ CountBuffer(call[p].user_id) = 1
        /\ extlog[call[p].user_id] # NoRec
        /\ now - Strptime(extlog[call[p].user_id].last_extraction) = ThresholdTicks

\* what should_extract returns at time t for n buffered turns when the user's
\* last drain took place at time since (-1: never)
TriggerRule(n, since, t) ==
    IF since < 0 THEN n >= EXTRACTION_TRIGGER_COUNT
    ELSE IF 0 < n /\ n < EXTRACTION_TRIGGER_COUNT THEN t >= since + ThresholdTicks
    ELSE n >= EXTRACTION_TRIGGER_COUNT

\* C9 as stated: without a record should_extract is True from the COUNT-th
\* turn on; after a drain at time t and with fewer than COUNT turns it is True
\* exactly from t + TIME hours on.
TriggerTimesFromDrainInstant ==
    [][\A p \in Tasks :
          Returns(p, "should_extract")
          => ret'[p] = TriggerRule(CountBuffer(call[p].user_id),
                                   drainedAt[call[p].user_id], now)
      ]_vars

\* C9 as amended: the same with t cut to the whole second that is stored as
\* last_extraction.
TriggerTimesFromStoredSecond ==
    [][\A p \in Tasks :
          Returns(p, "should_extract")
          => LET since == drainedAt[call[p].user_id] IN
             ret'[p] = TriggerRule(CountBuffer(call[p].user_id),
                                   IF since < 0 THEN since ELSE (since \div SubSec) * SubSec,
                                   now)
      ]_vars

\* C9 witness: True was returned for one turn less than TIME hours after the
\* instant of the drain
FiredBeforeDrainInstantPlusThreshold ==
    \E p \in Tasks :
        /\ pc[p] = "done"
        /\ call[p].op = "should_extract"
        /\ ret[p] = TRUE
        /\ CountBuffer(call[p].user_id) = 1
        /\ drainedAt[call[p].user_id] >= 0
        /\ now < drainedAt[call[p].user_id] + ThresholdTicks

\* C10: when no call is in progress the buffer holds exactly the turns added
\* after the last completed drain, get_buffer_size returns their number, and
\* should_extract has fired once there are COUNT of them.
BufferHoldsTurnsSinceDrain ==
    pc[1] \in {"idle", "done"}
    => /\ Pairs(SelectBuffer(SessionUser)) = sent[SessionUser]
       /\ (pc[1] = "done" /\ call[1].op = "get_buffer_size")
             => ret[1] = Len(sent[SessionUser])
       /\ ( /\ pc[1] = "done"
            /\ call[1].op = "should_extract"
            /\ Len(sent[SessionUser]) >= EXTRACTION_TRIGGER_COUNT )
             => ret[1] = TRUE

\* C10 witness: m1..m5 were drained by one get_and_clear, m6 was added and
\* get_buffer_size returned 1
SixthTurnAlone ==
    /\ pc[1] = "done"
    /\ call[1].op = "get_buffer_size"
    /\ ret[1] = 1
    /\ nextId = 7
    /\ drains[SessionUser] = 1
    /\ \A i \in 1..5 : handed[i] = 1
    /\ handed[6] = 0


\* C13: a get_and_clear whose DELETE removed another number of rows than it
\* had read does not return normally (and so does not advance the record).
InconsistentDrainSurfacesError ==
    \A p \in Tasks :
        (call[p].op = "get_and_clear" /\ pc[p] = "done")
        => Cardinality(gone[p]) = Len(rows[p])

\* C14: get_buffer_size(u) does not read the buffer while a get_and_clear(u)
\* has deleted the rows and not yet applied its record update.
SizeNotReadInsideDrain ==
    [][\A p \in Tasks :
          (pc[p] = "sz_count" /\ pc'[p] = "done")
          => ~ \E q \in Tasks : /\ call[q].op = "get_and_clear"
                                /\ call[q].user_id = call[p].user_id
                                /\ pc[q] = "gc_upsert"
      ]_vars


\* C11: whatever store failure or restart happens, no turn read by a
\* get_and_clear that advanced the Extraction Record is still in the buffer.
AdvancedDrainLeftNothing ==
    \A i \in DOMAIN handed : handed[i] >= 1 => i \notin Ids(buf)

\* a get_and_clear has failed at its record update after its DELETE, some
\* earlier get_and_clear advanced the record
DrainFailedAfterAdvance ==
    /\ \E p \in Tasks : /\ call[p].op = "get_and_clear"
                        /\ pc[p] = "failed"
                        /\ gone[p] # {}
    /\ \E i \in DOMAIN handed : handed[i] >= 1
    /\ \E u \in Users : extlog[u] # NoRec

\* C12: the turns read by a get_and_clear that ended in a store failure are
\* still in the buffer or were returned to a caller.
FailedDrainLosesNoTurn ==
    \A p \in Tasks :
        (call[p].op = "get_and_clear" /\ pc[p] = "failed")
        => \A i \in SeqIds(rows[p]) : i \in Ids(buf) \/ handed[i] >= 1


\* C15: a session whose should_extract returned True obtains a non-empty
\* batch from the get_and_clear it then calls (no other session's operation
\* on the user takes effect between the session's steps).
FiredSessionDrainsBatch ==
    \A p \in Tasks :
        (call[p].op = "get_and_clear" /\ pc[p] = "done" /\ last[p] = "fired")
        => ret[p] # <<>>


\* the user whose operation coroutine p performs in this step
ActingUser(p) == IF call[p].op # "none" THEN call[p].user_id ELSE call'[p].user_id

\* C16: with two users' sequences interleaved, a step for one user leaves the
\* other user's rows, Extraction Record and lock untouched, and every call
\* returns what the user's own calls alone determine: get_and_clear the turns
\* the user added since the user's last drain, should_extract the decision for
\* that many turns, the extraction count the number of the user's drains.
UsersIsolated ==
    [][\A p \in Tasks :
          pc'[p] # pc[p]
          => /\ \A v \in Users \ {ActingUser(p)} :
                   /\ UserRows(v)' = UserRows(v)
                   /\ extlog'[v] = extlog[v]
                   /\ locks'[v] = locks[v]
                   /\ lockState'[v] = lockState[v]
                   /\ nextLock'[v] = nextLock[v]
             /\ pc'[p] = "done" =>
                   LET u == call[p].user_id IN
                   /\ call[p].op = "get_and_clear" =>
                         /\ Pairs(ret'[p]) = sent[u]
                         /\ UserRows(u)' = {}
                         /\ extlog'[u].extraction_count = drains'[u]
                   /\ call[p].op = "should_extract" =>
                         ret'[p] = (Len(sent[u]) >= EXTRACTION_TRIGGER_COUNT)
                   /\ call[p].op = "add_message" =>
                         /\ ret'[p] = "None"
                         /\ Pairs(SortAsc(UserRows(u)')) = sent'[u]
      ]_vars

\* C16 witness: U1's get_and_clear has returned U1's three turns while U2's
\* get_and_clear is between its DELETE and its record update
DrainsOfTwoUsersOverlap ==
    /\ call[1].op = "get_and_clear" /\ pc[1] = "done" /\ Len(ret[1]) = 3
    /\ call[2].op = "get_and_clear" /\ pc[2] = "gc_upsert"


\* no get_and_clear of user u has returned turns since the last restart
FirstDrainAwaited(u) == restart.n >= 1 /\ drains[u] = restart.drains[u]

\* every locked lock is held by a coroutine that is running its "async with" body
NoOrphanLock ==
    \A u \in Users, l \in LockIds :
        lockState[u][l].locked
        => \E q \in Tasks : /\ held[q] = l
                            /\ call[q].user_id = u
                            /\ pc[q] \in Suspended

\* C17: the first get_and_clear of a user after a restart returns, in
\* insertion order and before anything added later, the turns that were in
\* the buffer at the restart; and after a restart no lock is locked unless a
\* running coroutine holds it.
RestartKeepsBufferedTurns ==
    [][/\ restart'.n >= 1 => NoOrphanLock'
       /\ \A p \in Tasks :
             (Returns(p, "get_and_clear") /\ FirstDrainAwaited(call[p].user_id))
             => LET kept == Conversations(restart.rows[call[p].user_id]) IN
                /\ Len(ret'[p]) >= Len(kept)
                /\ SubSeq(ret'[p], 1, Len(kept)) = kept
      ]_vars

\* C17 witness: the restart found two turns buffered, and the first
\* get_and_clear after it has returned them followed by nothing else
TurnsDrainedAfterRestart ==
    \E p \in Tasks :
        /\ restart.n >= 1
        /\ call[p].op = "get_and_clear"
        /\ pc[p] = "done"
        /\ Len(restart.rows[call[p].user_id]) = 2
        /\ ret[p] = Conversations(restart.rows[call[p].user_id])
        /\ drains[call[p].user_id] = restart.drains[call[p].user_id] + 1


\* C18: after MAX_MESSAGES_PER_USER + k sequential add_message calls (k > 0)
\* exactly MAX_MESSAGES_PER_USER rows remain, they are those of the latest
\* calls, and get_history returns their messages oldest-first.
HistoryKeepsNewest ==
    (pc[1] \in {"idle", "done"} /\ hNextId - 1 > MAX_MESSAGES_PER_USER)
    => LET n == hNextId - 1
           kept == HistUserRows(SessionUser)
       IN /\ Cardinality(kept) = MAX_MESSAGES_PER_USER
          /\ Ids(kept) = (n - MAX_MESSAGES_PER_USER + 1)..n
          /\ \A r \in kept : r.content = r.id /\ r.role = RoleOf(r.id)
          /\ (pc[1] = "done" /\ call[1].op = "get_history")
                => ret[1] = [i \in 1..MAX_MESSAGES_PER_USER |->
                               [role |-> RoleOf(n - MAX_MESSAGES_PER_USER + i),
                                content |-> n - MAX_MESSAGES_PER_USER + i]]

\* C18 witness: after MAX_MESSAGES_PER_USER + 2 calls get_history has returned
\* the messages 3 .. MAX_MESSAGES_PER_USER + 2
HistoryAfterTwoExtra ==
    /\ pc[1] = "done"
    /\ call[1].op = "get_history"
    /\ hNextId - 1 = MAX_MESSAGES_PER_USER + 2
    /\ Len(ret[1]) = MAX_MESSAGES_PER_USER
    /\ ret[1][1].content = 3
    /\ ret[1][MAX_MESSAGES_PER_USER].content = MAX_MESSAGES_PER_USER + 2

\* C19: the DELETE of the trim removes no row that is, at the moment of the
\* DELETE, among the user's MAX_MESSAGES_PER_USER most recent rows.
TrimSparesNewest ==
    [][\A p \in Tasks :
          (pc[p] = "ch_delete" /\ pc'[p] = "done")
          => \A r \in hist \ hist' :
                Cardinality({q \in HistUserRows(r.user_id) : q.id > r.id})
                   >= MAX_MESSAGES_PER_USER
      ]_vars

\* C19 witness: a call found its boundary, another call inserted, found a
\* later boundary and deleted up to it; the first call's DELETE is still due
TrimRacedByLaterTrim ==
    \E p, q \in Tasks :
        /\ call[p].op = "chat_add_message" /\ pc[p] = "done" /\ cutoff[p] # NoId
        /\ call[q].op = "chat_add_message" /\ pc[q] = "ch_delete"
        /\ cutoff[q] < cutoff[p]

\* the user's add_message calls that have inserted and not finished their trim
Trimming(u) ==
    {q \in Tasks : /\ call[q].op = "chat_add_message"
                   /\ call[q].user_id = u
                   /\ pc[q] \in {"ch_cutoff", "ch_delete"}}

\* C20 as stated: at every instant a user's turn log holds at most
\* MAX_MESSAGES_PER_USER + 1 rows.
TurnLogAtMostOneExtra ==
    \A u \in Users : Cardinality(HistUserRows(u)) <= MAX_MESSAGES_PER_USER + 1

\* C20 as amended: at every instant a user's turn log holds at most
\* MAX_MESSAGES_PER_USER rows plus one for every add_message call of the user
\* that has inserted and not yet finished its trim.
TurnLogOneExtraPerTrimmingCall ==
    \A u \in Users :
        Cardinality(HistUserRows(u)) <= MAX_MESSAGES_PER_USER + Cardinality(Trimming(u))

\* C20 witness: two calls have inserted, neither has deleted: two extra rows
TwoExtraRows ==
    /\ Cardinality(HistUserRows(SessionUser)) = MAX_MESSAGES_PER_USER + 2
    /\ Cardinality(Trimming(SessionUser)) = 2


\* C22: a clear_buffer_sync(u) step leaves u with no buffered turn and no
\* entry in the lock table, and leaves the buffered turns and the lock table
\* entry of every other user as they were.
ClearBufferSyncFrame ==
    [][\A u \in Users :
          ClearBufferSync(u)
          => /\ UserRows(u)' = {}
             /\ locks'[u] = NoLock
             /\ \A v \in Users \ {u} : /\ UserRows(v)' = UserRows(v)
                                       /\ locks'[v] = locks[v]
      ]_vars

\* C22 witness: clear_buffer_sync(U1) has removed U1's turn and lock entry
\* while U2 keeps a buffered turn and a lock entry
OnlyOneUserCleared ==
    /\ syncs = 1
    /\ UserRows("U1") = {} /\ locks["U1"] = NoLock /\ nextLock["U1"] > 1
    /\ \E i \in TurnsOf("U1") : handed[i] = 0
    /\ UserRows("U2") # {} /\ locks["U2"] # NoLock

\* C23: no step of a should_extract call changes the buffered turns or the
\* Extraction Record of any user.
ShouldExtractChangesNothing ==
    [][\A p \in Tasks :
          ( /\ pc'[p] # pc[p]
            /\ (call[p].op = "should_extract" \/ call'[p].op = "should_extract") )
          => buf' = buf /\ extlog' = extlog
      ]_vars

\* C23 witness: should_extract has returned True with five turns buffered
\* and no Extraction Record
FiredLeavingTurnsBuffered ==
    \E p \in Tasks :
        /\ call[p].op = "should_extract" /\ pc[p] = "done" /\ ret[p] = TRUE
        /\ CountBuffer(call[p].user_id) = EXTRACTION_TRIGGER_COUNT
        /\ extlog[call[p].user_id] = NoRec

\* the operations that run inside "async with self._get_lock(user_id)"
LockedOps == {"add_message", "should_extract", "get_and_clear", "clear_buffer"}

\* coroutine p is suspended on a store access of a locked operation
InCritical(p) == call[p].op \in LockedOps /\ pc[p] \in Suspended

\* C25: two locked operations of one user are never both at their store
\* accesses: the second performs none of its own until the first has finished.
SameUserIoNeverInterleaves ==
    \A p, q \in Tasks :
        (p # q /\ InCritical(p) /\ InCritical(q))
        => call[p].user_id # call[q].user_id

\* lock l of user u is held or waited on
InUse(u, l) == lockState[u][l].locked \/ lockState[u][l].waiters # <<>>

\* C29: while a lock of a user is held or waited on, a lookup for the user
\* returns that lock.
LockTableKeepsLockInUse ==
    \A u \in Users, l \in LockIds : InUse(u, l) => GetLock(u) = l


\* C30: a user has an Extraction Record only if some get_and_clear of the
\* user has deleted a non-empty batch.
RecordOnlyAfterDrainDeleted ==
    \A u \in Users : extlog[u] # NoRec => emptied[u]


\* C21: get_history(user_id, limit) returns min(limit, number of the user's
\* rows) turns; they are the user's most recently inserted ones, oldest first.
GetHistoryReturnsNewest ==
    \A p \in Tasks :
        (call[p].op = "get_history" /\ pc[p] = "done")
        => LET rs == HistUserRows(call[p].user_id)
               k == IF limit[p] < Cardinality(rs) THEN limit[p] ELSE Cardinality(rs)
           IN /\ Len(ret[p]) = k
              /\ \A i \in 1..k :
                    \E r \in rs : /\ ret[p][i] = [role |-> r.role, content |-> r.content]
                                  /\ Cardinality({q \in rs : q.id > r.id}) = k - i

\* C21 witness: with three rows of U1 and a row of U2 stored, get_history(U1, 2)
\* has returned two turns
TwoOfThreeReturned ==
    \E p \in Tasks :
        /\ call[p].op = "get_history" /\ pc[p] = "done"
        /\ call[p].user_id = "U1" /\ limit[p] = 2
        /\ Cardinality(HistUserRows("U1")) = 3
        /\ \E r \in HistUserRows("U2") : r.id = 3
        /\ Len(ret[p]) = 2
        /\ ret[p][2].content = 4


\* C24: when a store access of add_message, should_extract, get_and_clear or
\* clear_buffer fails, the call ends with the error at once (the statement is
\* not run again and has no effect), the user's lock is released, and no lock
\* stays locked without a running holder, so later calls are not blocked.
StoreFailureReleasesLock ==
    [][/\ \A p \in Tasks :
             (pc[p] # "failed" /\ pc'[p] = "failed")
             => /\ call[p].op \in LockedOps
                /\ held'[p] = NoLock
                /\ ~lockState'[call[p].user_id][held[p]].locked
                /\ dbVars' = dbVars
                /\ ret'[p] = "pending"
       /\ NoOrphanLock'
      ]_vars

\* C24 witness: a get_and_clear has failed at its DELETE and, before its
\* caller has taken the error, another call of the user holds the lock and is
\* at its store access
WaiterRunsAfterFailure ==
    \E p, q \in Tasks :
        /\ call[p].op = "get_and_clear" /\ pc[p] = "failed" /\ rows[p] # <<>> /\ gone[p] = {}
        /\ call[q].user_id = call[p].user_id
        /\ InCritical(q) /\ held[q] # NoLock


\* C26: when operation a requested the user's lock before operation b, b is
\* at none of its store accesses until a has finished.
RequestOrderKept ==
    \A a, b \in Tasks :
        ( /\ asked.at[a] # 0 /\ asked.at[b] # 0
          /\ asked.at[a] < asked.at[b]
          /\ call[a].user_id = call[b].user_id
          /\ InCritical(b) )
        => pc[a] \in {"done", "failed"}


\* C27: whenever an operation waits for a lock, an operation that holds that
\* lock, or the waiter the released lock has been handed to, can take a step.
WaiterNeverStuck ==
    \A p \in Tasks :
        pc[p] = "wait"
        => \E q \in Tasks :
              /\ call[q].user_id = call[p].user_id
              /\ held[q] = held[p]
              /\ pc[q] \in Suspended \/ (pc[q] = "wait" /\ ~lockState[call[p].user_id][held[p]].locked)
              /\ ENABLED Resume(q)

\* C27 witness: an operation waits on a lock that clear_buffer_sync has
\* removed from the lock table while its holder is at a store access
WaitingOnRemovedLock ==
    \E p, q \in Tasks :
        /\ pc[p] = "wait" /\ InCritical(q)
        /\ call[q].user_id = call[p].user_id /\ held[q] = held[p]
        /\ locks[call[p].user_id] # held[p]

\* C28: an operation waits only while another operation of the same user
\* holds or is queued on the same lock (or the lock has just been handed to
\* it), and an operation of a user with no other call in progress enters its
\* critical section without waiting.
WaitsOnlyForOwnUser ==
    [][/\ \A p \in Tasks :
             pc'[p] = "wait"
             => \/ \E q \in Tasks \ {p} :
                      /\ call'[q].user_id = call'[p].user_id
                      /\ held'[q] = held'[p]
                      /\ pc'[q] \in Suspended \cup {"wait"}
                \/ LET lock == lockState'[call'[p].user_id][held'[p]] IN
                   /\ ~lock.locked
                   /\ lock.waiters # <<>>
                   /\ Head(lock.waiters) = p
       /\ \A p \in Tasks :
             ( /\ pc[p] = "idle" /\ pc'[p] # "idle"
               /\ call'[p].op \in LockedOps
               /\ \A q \in Tasks \ {p} : call[q].user_id # call'[p].user_id )
             => pc'[p] # "wait"
      ]_vars

\* C28 witness: add_message(U1) has completed while a get_and_clear(U2)
\* holds U2's lock between its read and its DELETE
AddCompletedBesideHeldLock ==
    \E p, q \in Tasks :
        /\ call[p].op = "add_message" /\ call[p].user_id = "U1" /\ pc[p] = "done"
        /\ call[q].op = "get_and_clear" /\ call[q].user_id = "U2" /\ pc[q] = "gc_delete"
        /\ lockState["U2"][held[q]].locked

\* C31: the step that completes add_message(u, role, content) adds exactly one
\* row to u's buffered turns, also when a turn of the same role and content is
\* buffered already, keeps the rows u had, and leaves every Extraction Record
\* and every other user's buffered turns as they were.
AddMessageAddsOneTurn ==
    [][\A p \in Tasks :
          Returns(p, "add_message")
          => LET u == call[p].user_id IN
             /\ CountBuffer(u)' = CountBuffer(u) + 1
             /\ UserRows(u) \subseteq UserRows(u)'
             /\ \A r \in UserRows(u)' \ UserRows(u) :
                   r.role = call[p].role /\ r.content = call[p].content
             /\ extlog' = extlog
             /\ \A v \in Users \ {u} : UserRows(v)' = UserRows(v)
      ]_vars

\* C31 witness: add_message(U1) has completed and U1's buffer holds two turns
\* of the same role and content, U1 has an Extraction Record and U2 has
\* buffered turns
DuplicateTurnBuffered ==
    \E p \in Tasks :
        /\ call[p].op = "add_message" /\ call[p].user_id = "U1" /\ pc[p] = "done"
        /\ \E r, q \in UserRows("U1") :
              r.id < q.id /\ r.role = q.role /\ r.content = q.content
              /\ q.role = call[p].role /\ q.content = call[p].content
        /\ extlog["U1"] # NoRec
        /\ UserRows("U2") # {}

\* C32: a get_and_clear that returns after an erasure of the user
\* (clear_buffer or clear_buffer_sync) has completed returns no turn that the
\* erasure removed, and so records no extraction for such turns.
DrainReturnsNoErasedTurn ==
    [][\A p \in Tasks :
          Returns(p, "get_and_clear") => SeqIds(rows[p]) \cap erased = {}
      ]_vars

\* C33: with every store statement completing and every ready coroutine
\* eventually run, each add_message, should_extract, get_and_clear and
\* clear_buffer call that was started returns.
EveryCallReturns ==
    \A p \in Tasks : (pc[p] \notin {"idle", "done"}) ~> (pc[p] = "done")

\* C33 witness: a clear_buffer waits for the lock that a get_and_clear of the
\* same user holds, after clear_buffer_sync has removed that lock from the
\* lock table
ClearWaitsBehindDrain ==
    \E p, q \in Tasks :
        /\ pc[p] = "wait" /\ call[p].op = "clear_buffer"
        /\ call[q].op = "get_and_clear" /\ pc[q] = "gc_upsert"
        /\ call[q].user_id = call[p].user_id /\ held[q] = held[p]
        /\ syncs = 1 /\ locks[call[p].user_id] = NoLock

\* C34: with sessions that evaluate should_extract after every add_message
\* and call get_and_clear whenever it fires, every buffered turn that the
\* user follows with at least EXTRACTION_TRIGGER_COUNT - 1 further turns is
\* eventually returned by a get_and_clear.
BufferedTurnEventuallyReturned ==
    \A i \in 1..(MaxSeqTurns - EXTRACTION_TRIGGER_COUNT + 1) :
        (i \in Ids(buf)) ~> (handed[i] >= 1)

\* C34 witness: the first turn has been returned by a get_and_clear that a
\* session called after its should_extract fired on the count
FirstTurnReturnedOnCount ==
    \E p \in Tasks :
        /\ call[p].op = "get_and_clear" /\ pc[p] = "done" /\ last[p] = "fired"
        /\ handed[1] = 1
        /\ Len(rows[p]) >= EXTRACTION_TRIGGER_COUNT

\* C35: with one session per user that evaluates should_extract after every
\* add_message and calls get_and_clear whenever it fires, no user's buffer
\* ever holds more than EXTRACTION_TRIGGER_COUNT turns.
BufferAtMostTriggerCount ==
    \A u \in Users : Cardinality(UserRows(u)) <= EXTRACTION_TRIGGER_COUNT

\* C35 witness: U1's sixth turn is the only one buffered, the five before
\* it were returned by the get_and_clear called when should_extract fired
SixthTurnAfterFullDrain ==
    /\ Cardinality(TurnsOf("U1")) = EXTRACTION_TRIGGER_COUNT + 1
    /\ Cardinality(UserRows("U1")) = 1
    /\ drains["U1"] = 1
    /\ Cardinality({i \in TurnsOf("U1") : handed[i] = 1}) = EXTRACTION_TRIGGER_COUNT

\* C36: no step lowers a user's extraction_count, moves a user's
\* last_extraction backwards (the clock never goes back) or removes a user's
\* Extraction Record.
RecordNeverGoesBack ==
    [][\A u \in Users :
          /\ extlog'[u].extraction_count >= extlog[u].extraction_count
          /\ extlog'[u].last_extraction >= extlog[u].last_extraction
          /\ extlog[u] # NoRec => extlog'[u] # NoRec
      ]_vars

\* C37: the rows of a user in the Turn Log are changed or deleted only by a
\* step of an operation called for that user: add_message with its trim,
\* clear_history and clear_history_sync for user A leave every row of a
\* different user B as it was.
TurnLogRowsOfOthersKept ==
    [][\A v \in Users :
          HistUserRows(v)' # HistUserRows(v)
          => \/ \E p \in Tasks : pc'[p] # pc[p] /\ call[p].user_id = v
             \/ ClearHistorySync(v)
      ]_vars

\* C37 witness: U1's trim has deleted U1's oldest row while a row of U2 with
\* a smaller id than the deleted one is still there
TrimPassedOlderRowOfOther ==
    \E p \in Tasks :
        /\ call[p].op = "chat_add_message" /\ call[p].user_id = "U1"
        /\ pc[p] = "done" /\ cutoff[p] # NoId
        /\ \E r \in HistUserRows("U2") : r.id < cutoff[p]
        /\ Cardinality(HistUserRows("U1")) = MAX_MESSAGES_PER_USER

\* C38: under any interleaving of the accept and reject callbacks, a
\* challenge has at most one battle recorded, its entry is removed from
\* bot_data at most once, and no callback fails on a removed entry.
PkResolvedAtMostOnce ==
    /\ \A k \in PkIds : pk_records[k] <= 1 /\ removals[k] <= 1
    /\ \A p \in Tasks :
          call[p].op \in {"accept_pk_callback", "reject_pk_callback"} => pc[p] # "failed"

\* the callback that coroutine p runs in this step
Callback(p) == IF call[p].op = "none" THEN call'[p] ELSE call[p]

\* C39: a step of an accept or reject callback from a user who is not the
\* opponent of the pending challenge leaves bot_data and pk_records as they
\* were, and no entry of bot_data has the challenger or a bot as opponent.
OnlyOpponentResolves ==
    /\ [](\A k \in PkIds :
            bot_data[k] # NoPk
            => /\ bot_data[k].opponent_id # bot_data[k].challenger_id
               /\ ~IsBot(bot_data[k].opponent_id))
    /\ [][\A p \in Tasks :
            ( /\ pc'[p] # pc[p]
              /\ Callback(p).op \in {"accept_pk_callback", "reject_pk_callback"}
              /\ bot_data[Callback(p).content] # NoPk
              /\ Callback(p).user_id # bot_data[Callback(p).content].opponent_id )
            => bot_data' = bot_data /\ pk_records' = pk_records
         ]_vars

\* C39 witness: the challenger's accept and reject callbacks for their own
\* challenge have both returned; the challenge is pending and no battle is
\* recorded
ChallengerPressedBothButtons ==
    \E p, q \in Tasks, k \in PkIds :
        /\ call[p].op = "accept_pk_callback" /\ pc[p] = "done" /\ call[p].content = k
        /\ call[q].op = "reject_pk_callback" /\ pc[q] = "done" /\ call[q].content = k
        /\ bot_data[k] # NoPk
        /\ call[p].user_id = bot_data[k].challenger_id
        /\ call[q].user_id = bot_data[k].challenger_id
        /\ pk_records[k] = 0

\* C40: save_reading never ends in an exception; it returns False exactly
\* when a store access failed and True otherwise; and when a call made after
\* the previous one has returned returns True, the user has at most
\* MAX_READINGS_PER_USER readings and they are the most recently inserted.
SaveReadingNeverRaises ==
    /\ [](\A p \in Tasks : call[p].op = "save_reading" => pc[p] # "failed")
    /\ [][\A p \in Tasks :
            Returns(p, "save_reading")
            => /\ ret'[p] \in BOOLEAN
               /\ (ret'[p] = FALSE) <=> SaveReadingStoreFails(p)
               /\ ret'[p] = TRUE =>
                     LET kept == Ids(ReadingsOf(call[p].user_id)')
                         n == rNextId' - 1
                     IN /\ Cardinality(kept) <= MAX_READINGS_PER_USER
                        /\ kept = {i \in 1..n : i > n - MAX_READINGS_PER_USER}
         ]_vars

\* C40 witness: a call failed after its INSERT and left
\* MAX_READINGS_PER_USER + 1 readings; the next call has returned True and
\* MAX_READINGS_PER_USER readings are left
TrimCaughtUpAfterFailure ==
    /\ pc[1] = "done" /\ call[1].op = "save_reading" /\ ret[1] = TRUE
    /\ cutoff[1] = 2
    /\ Cardinality(ReadingsOf(SessionUser)) = MAX_READINGS_PER_USER
    /\ rNextId - 1 = MAX_READINGS_PER_USER + 2

====
